---- MODULE Spec2Model ----
(***************************************************************************)
(* Environment naming engine of the mamba environment manager              *)
(* (environment_manager.py): _clean_existing_versions,                     *)
(* _extract_package_versions_from_yaml, _add_package_versions_to_name and  *)
(* generate_new_name.                                                      *)
(*                                                                         *)
(* A Python str is modelled as a sequence of one-character strings, so     *)
(* that "ab_py310" is <<"a","b","_","p","y","3","1","0">>.  The regular    *)
(* expressions of the source are modelled by what re.sub / re.match do    *)
(* with them: leftmost, greedy, non-overlapping matches.                   *)
(***************************************************************************)
EXTENDS Integers, Sequences, FiniteSets, TLC

(***************************************************************************)
(* Characters and str helpers                                              *)
(***************************************************************************)
Digit == {"0", "1", "2", "3", "4", "5", "6", "7", "8", "9"}

UpperCase == <<"A","B","C","D","E","F","G","H","I","J","K","L","M","N","O","P","Q","R","S","T","U","V","W","X","Y","Z">>

LowerCase == <<"a","b","c","d","e","f","g","h","i","j","k","l","m","n","o","p","q","r","s","t","u","v","w","x","y","z">>

Letter == {UpperCase[k] : k \in 1..26} \cup {LowerCase[k] : k \in 1..26}

\* str.lower() on one character
lower_char(c) ==
    IF \E k \in 1..26 : UpperCase[k] = c
    THEN LowerCase[CHOOSE k \in 1..26 : UpperCase[k] = c]
    ELSE c

\* str.lower()
lower(s) == [i \in 1..Len(s) |-> lower_char(s[i])]

\* s[i] of a 1-based sequence, "" past either end
At(s, i) == IF i \in 1..Len(s) THEN s[i] ELSE ""

\* s[i:] of the source, 1-based: the characters from position i on
From(s, i) == IF i > Len(s) THEN <<>> ELSE SubSeq(s, i, Len(s))

\* lit occurs in s at position i (exact comparison)
OccursAt(s, i, lit) ==
    /\ i >= 1
    /\ i + Len(lit) - 1 <= Len(s)
    /\ \A k \in 1..Len(lit) : s[i + k - 1] = lit[k]

\* the Python test "lit in s" on two strs
Contains(s, lit) == \E i \in 1..(Len(s) - Len(lit) + 1) : OccursAt(s, i, lit)

\* a lower-case literal of a pattern compiled with re.IGNORECASE occurs at i
OccursAtIgnoreCase(s, i, lit) ==
    /\ i >= 1
    /\ i + Len(lit) - 1 <= Len(s)
    /\ \A k \in 1..Len(lit) : lower_char(s[i + k - 1]) = lit[k]

\* length of the match of \d+ at position i, 0 when there is none
RECURSIVE DigitRun(_, _)
DigitRun(s, i) ==
    IF i >= 1 /\ i <= Len(s) /\ s[i] \in Digit THEN 1 + DigitRun(s, i + 1) ELSE 0

\* length of the match of \d+(\.\d+)? at position i, 0 when there is none
NumeralLen(s, i) ==
    LET d == DigitRun(s, i)
        e == DigitRun(s, i + d + 1)
    IN  IF d = 0 THEN 0
        ELSE IF At(s, i + d) = "." /\ e > 0 THEN d + 1 + e
        ELSE d

\* re.sub(pattern, '', s) given ml, where ml[i] is the length of the pattern's
\* match that starts at i (0: none); matches are taken leftmost and do not
\* overlap
RECURSIVE RemoveMatches(_, _, _)
RemoveMatches(s, ml, i) ==
    IF i > Len(s) THEN <<>>
    ELSE IF ml[i] > 0 THEN RemoveMatches(s, ml, i + ml[i])
    ELSE <<s[i]>> \o RemoveMatches(s, ml, i + 1)


(***************************************************************************)
(* _clean_existing_versions: the patterns list, in source order.  Each     *)
(* operator gives the length of the pattern's match at position i.         *)
(***************************************************************************)
\* a literal prefix followed by \d+(\.\d+)?
PrefixNumeral(s, i, lit) ==
    IF OccursAtIgnoreCase(s, i, lit) /\ NumeralLen(s, i + Len(lit)) > 0
    THEN Len(lit) + NumeralLen(s, i + Len(lit))
    ELSE 0

\* a literal prefix followed by \d+(\.\d+)?$ : the numeral must end the str
\* ($ also matches before a final newline; no name here ends in one)
PrefixNumeralEnd(s, i, lit) ==
    LET n == PrefixNumeral(s, i, lit)
    IN  IF n > 0 /\ i + n - 1 = Len(s) THEN n ELSE 0

\* r'_py\d+(\.\d+)?'
pat_py(s, i) == PrefixNumeral(s, i, <<"_","p","y">>)

\* r'_python\d+(\.\d+)?'
pat_python(s, i) == PrefixNumeral(s, i, <<"_","p","y","t","h","o","n">>)

\* r'_r\d+(\.\d+)?'
pat_r(s, i) == PrefixNumeral(s, i, <<"_","r">>)

\* r'_r_?\d+(\.\d+)?'
pat_r_opt(s, i) ==
    IF OccursAtIgnoreCase(s, i, <<"_","r","_">>)
    THEN PrefixNumeral(s, i, <<"_","r","_">>)
    ELSE PrefixNumeral(s, i, <<"_","r">>)

\* r'py\d+(\.\d+)?$'
pat_py_end(s, i) == PrefixNumeralEnd(s, i, <<"p","y">>)

\* r'python\d+(\.\d+)?$'
pat_python_end(s, i) == PrefixNumeralEnd(s, i, <<"p","y","t","h","o","n">>)

\* r'r\d+(\.\d+)?$'
pat_r_end(s, i) == PrefixNumeralEnd(s, i, <<"r">>)

\* variant: r'_\d+\.\d+(?=_)', the numeral pair must be followed by '_'
pat_dotted_embedded(s, i) ==
    LET d == DigitRun(s, i + 1)
        e == DigitRun(s, i + d + 2)
        n == d + e + 2
    IN  IF /\ At(s, i) = "_" /\ d > 0 /\ At(s, i + d + 1) = "." /\ e > 0
           /\ At(s, i + n) = "_"
        THEN n ELSE 0

\* variant: r'_\d+\.\d+$', the numeral pair must end the str
pat_dotted_trailing(s, i) ==
    LET d == DigitRun(s, i + 1)
        e == DigitRun(s, i + d + 2)
        n == d + e + 2
    IN  IF /\ At(s, i) = "_" /\ d > 0 /\ At(s, i + d + 1) = "." /\ e > 0
           /\ i + n > Len(s)
        THEN n ELSE 0

\* r'_\d+\.\d+(?=_|$)'
pat_dotted(s, i) ==
    LET d == DigitRun(s, i + 1)
        e == DigitRun(s, i + d + 2)
        n == d + e + 2
    IN  IF /\ At(s, i) = "_" /\ d > 0 /\ At(s, i + d + 1) = "." /\ e > 0
           /\ (i + n > Len(s) \/ At(s, i + n) = "_")
        THEN n ELSE 0

\* r'_v\d+$'
pat_v_end(s, i) ==
    LET d == DigitRun(s, i + 2)
    IN  IF OccursAtIgnoreCase(s, i, <<"_","v">>) /\ d > 0 /\ i + 2 + d - 1 = Len(s)
        THEN 2 + d ELSE 0

\* r'_(\d+)\.(\d+)_<tag>\1\2' for tag "py" and tag "r"
DupNumeral(s, i, tag) ==
    LET d == DigitRun(s, i + 1)
        e == DigitRun(s, i + d + 2)
        t == i + d + e + 2
        g == SubSeq(s, i + 1, i + d) \o SubSeq(s, i + d + 2, i + d + e + 1)
        lit == <<"_">> \o tag
    IN  IF /\ At(s, i) = "_" /\ d > 0 /\ At(s, i + d + 1) = "." /\ e > 0
           /\ OccursAtIgnoreCase(s, t, lit)
           /\ OccursAt(s, t + Len(lit), g)
        THEN 2 + d + e + Len(lit) + Len(g) ELSE 0

\* r'_(\d+)\.(\d+)_py\1\2'
pat_dup_py(s, i) == DupNumeral(s, i, <<"p","y">>)

\* r'_(\d+)\.(\d+)_r\1\2'
pat_dup_r(s, i) == DupNumeral(s, i, <<"r">>)

\* re.sub(r'_+', '_', s)
RECURSIVE CollapseFrom(_, _)
CollapseFrom(s, i) ==
    IF i > Len(s) THEN <<>>
    ELSE IF s[i] = "_" /\ At(s, i - 1) = "_" THEN CollapseFrom(s, i + 1)
    ELSE <<s[i]>> \o CollapseFrom(s, i + 1)

collapse_underscores(s) == CollapseFrom(s, 1)

\* s.strip('_')
strip_underscores(s) ==
    LET keep == {i \in 1..Len(s) : s[i] # "_"}
    IN  IF keep = {} THEN <<>>
        ELSE SubSeq(s, CHOOSE i \in keep : \A j \in keep : i <= j,
                       CHOOSE i \in keep : \A j \in keep : j <= i)

\* the patterns list: length of the match of the k-th pattern at position i
pattern_match(k, s, i) ==
    CASE k = 1  -> pat_py(s, i)
      [] k = 2  -> pat_python(s, i)
      [] k = 3  -> pat_r(s, i)
      [] k = 4  -> pat_r_opt(s, i)
      [] k = 5  -> pat_py_end(s, i)
      [] k = 6  -> pat_python_end(s, i)
      [] k = 7  -> pat_r_end(s, i)
      [] k = 8  -> pat_dotted(s, i)
      [] k = 9  -> pat_v_end(s, i)
      [] k = 10 -> pat_dup_py(s, i)
      [] k = 11 -> pat_dup_r(s, i)

\* re.sub(patterns[k], '', s, flags=re.IGNORECASE)
re_sub_empty(k, s) ==
    RemoveMatches(s, [i \in 1..Len(s) |-> pattern_match(k, s, i)], 1)

\* the for loop over patterns: every pattern applied once, in list order
apply_patterns(name) ==
    LET s1  == re_sub_empty(1, name)
        s2  == re_sub_empty(2, s1)
        s3  == re_sub_empty(3, s2)
        s4  == re_sub_empty(4, s3)
        s5  == re_sub_empty(5, s4)
        s6  == re_sub_empty(6, s5)
        s7  == re_sub_empty(7, s6)
        s8  == re_sub_empty(8, s7)
        s9  == re_sub_empty(9, s8)
        s10 == re_sub_empty(10, s9)
    IN  re_sub_empty(11, s10)

\* variant: the result is returned however short it is
clean_without_fallback(name) ==
    strip_underscores(collapse_underscores(apply_patterns(name)))

clean_existing_versions(name) ==
    LET cleaned_name == strip_underscores(collapse_underscores(apply_patterns(name)))
    IN  IF Len(cleaned_name) < 2 THEN name ELSE cleaned_name

(***************************************************************************)
(* More str helpers used by the extraction and assembly code               *)
(***************************************************************************)
Range(f) == {f[x] : x \in DOMAIN f}

\* characters removed by str.strip() with no argument
Whitespace == {" ", "\t", "\n", "\r"}

\* str.strip()
strip(s) ==
    LET keep == {i \in 1..Len(s) : s[i] \notin Whitespace}
    IN  IF keep = {} THEN <<>>
        ELSE SubSeq(s, CHOOSE i \in keep : \A j \in keep : i <= j,
                       CHOOSE i \in keep : \A j \in keep : j <= i)

\* position of the first character of s, at or after i, that is in seps;
\* Len(s) + 1 when there is none
RECURSIVE FirstOf(_, _, _)
FirstOf(s, i, seps) ==
    IF i > Len(s) \/ s[i] \in seps THEN i ELSE FirstOf(s, i + 1, seps)

\* s.split(c)[0] and re.split('[..]', s)[0]: the text before the first separator
before_first(s, seps) == SubSeq(s, 1, FirstOf(s, 1, seps) - 1)

\* s.split(c) for a one-character separator c
RECURSIVE split(_, _)
split(s, c) ==
    LET k == FirstOf(s, 1, {c})
    IN  IF k > Len(s) THEN <<s>>
        ELSE <<SubSeq(s, 1, k - 1)>> \o split(From(s, k + 1), c)

\* s.replace(lit, '') for a non-empty literal: occurrences are taken leftmost
\* and do not overlap
replace_empty(s, lit) ==
    RemoveMatches(s, [i \in 1..Len(s) |-> IF OccursAt(s, i, lit) THEN Len(lit) ELSE 0], 1)

\* s.startswith(lit)
startswith(s, lit) == OccursAt(s, 1, lit)

\* length of the longest run of characters of cs that starts at position i
RECURSIVE RunOf(_, _, _)
RunOf(s, i, cs) ==
    IF i >= 1 /\ i <= Len(s) /\ s[i] \in cs THEN 1 + RunOf(s, i + 1, cs) ELSE 0

\* length of the longest run of characters outside cs that starts at i
RECURSIVE RunNotOf(_, _, _)
RunNotOf(s, i, cs) ==
    IF i >= 1 /\ i <= Len(s) /\ s[i] \notin cs THEN 1 + RunNotOf(s, i + 1, cs) ELSE 0

\* the characters of str in code point order (punctuation that no name
\* or version of the model uses is left out); Python compares strs by code point
CodePoints == <<" ","!","#","+",",","-",".","/","0","1","2","3","4","5","6","7","8","9",":",";","<","=",">","?","@","A","B","C","D","E","F","G","H","I","J","K","L","M","N","O","P","Q","R","S","T","U","V","W","X","Y","Z","[","]","_","a","b","c","d","e","f","g","h","i","j","k","l","m","n","o","p","q","r","s","t","u","v","w","x","y","z","~">>

ord(c) == IF \E k \in 1..Len(CodePoints) : CodePoints[k] = c
          THEN CHOOSE k \in 1..Len(CodePoints) : CodePoints[k] = c
          ELSE 0

\* a < b on two strs
RECURSIVE str_less(_, _)
str_less(a, b) ==
    IF b = <<>> THEN FALSE
    ELSE IF a = <<>> THEN TRUE
    ELSE IF Head(a) = Head(b) THEN str_less(Tail(a), Tail(b))
    ELSE ord(Head(a)) < ord(Head(b))

\* str(n) of a natural number
RECURSIVE int_str(_)
int_str(n) ==
    LET d == <<"0", "1", "2", "3", "4", "5", "6", "7", "8", "9">>[(n % 10) + 1]
    IN  IF n < 10 THEN <<d>> ELSE int_str(n \div 10) \o <<d>>

\* '_'.join(parts) and ''.join(parts)
RECURSIVE join(_, _)
join(sep, parts) ==
    IF parts = <<>> THEN <<>>
    ELSE IF Len(parts) = 1 THEN parts[1]
    ELSE parts[1] \o sep \o join(sep, Tail(parts))

(***************************************************************************)
(* Python values of a parsed YAML document.  Every type has its own field  *)
(* names; a dict is a function from its keys.                              *)
(***************************************************************************)
PyNone == [t |-> "None"]

PyStr(s) == [t |-> "str", sv |-> s]

PyInt(n) == [t |-> "int", iv |-> n]

PyList(l) == [t |-> "list", lv |-> l]

PyDict(d) == [t |-> "dict", dv |-> d]

\* bool(x): None, 0 and empty containers are false
truthy(x) ==
    CASE x.t = "None" -> FALSE
      [] x.t = "str"  -> x.sv # <<>>
      [] x.t = "int"  -> x.iv # 0
      [] x.t = "list" -> x.lv # <<>>
      [] x.t = "dict" -> DOMAIN x.dv # {}

\* Optional[str] arguments
NoStr == [some |-> FALSE, s |-> <<>>]

SomeStr(s) == [some |-> TRUE, s |-> s]

\* the empty dict, and d[k] = v
EmptyDict == <<>>

dict_put(d, k, v) == [x \in DOMAIN d \cup {k} |-> IF x = k THEN v ELSE d[x]]

(***************************************************************************)
(* _extract_package_versions_from_yaml                                     *)
(*                                                                         *)
(* yaml_file is [file, doc]: file is "none" (no path given), "missing"     *)
(* (the path does not exist), "unreadable" (open() or yaml.safe_load()     *)
(* raises) or "ok", and then doc is the value yaml.safe_load() returns.    *)
(***************************************************************************)
package_mappings == <<
    <<<<"s","c","a","n","p","y">>, <<<<"s","c","a","n","p","y">>, <<"s","c","a","n","p","y","-","s","c","r","i","p","t","s">>>>>>,
    <<<<"h","a","r","m","o","n","y">>, <<<<"h","a","r","m","o","n","y","p","y">>, <<"h","a","r","m","o","n","y","-","p","y","t","o","r","c","h">>, <<"h","a","r","m","o","n","y">>>>>>,
    <<<<"s","c","e","n","i","c">>, <<<<"p","y","s","c","e","n","i","c">>, <<"s","c","e","n","i","c">>>>>>,
    <<<<"s","e","u","r","a","t">>, <<<<"r","p","y","2">>, <<"s","e","u","r","a","t">>>>>>,
    <<<<"c","i","s","t","o","p","i","c">>, <<<<"p","y","c","i","s","t","o","p","i","c">>, <<"c","i","s","t","o","p","i","c">>>>>>,
    <<<<"c","e","l","l","r","a","n","k">>, <<<<"c","e","l","l","r","a","n","k">>>>>>,
    <<<<"c","e","l","l","x","g","e","n","e">>, <<<<"c","e","l","l","x","g","e","n","e">>>>>>,
    <<<<"n","a","p","a","r","i">>, <<<<"n","a","p","a","r","i">>>>>>,
    <<<<"n","e","u","r","o","g","l","a","n","c","e","r">>, <<<<"n","e","u","r","o","g","l","a","n","c","e","r">>>>>>,
    <<<<"n","e","x","t","f","l","o","w">>, <<<<"n","e","x","t","f","l","o","w">>>>>>,
    <<<<"d","e","e","p","t","o","o","l","s">>, <<<<"d","e","e","p","t","o","o","l","s">>>>>>,
    <<<<"b","i","o","p","y","t","h","o","n">>, <<<<"b","i","o","p","y","t","h","o","n">>, <<"b","i","o">>>>>>,
    <<<<"e","l","a","s","t","i","x">>, <<<<"e","l","a","s","t","i","x">>, <<"i","t","k","-","e","l","a","s","t","i","x">>>>>>,
    <<<<"p","y","t","o","r","c","h">>, <<<<"p","y","t","o","r","c","h">>, <<"t","o","r","c","h">>>>>>,
    <<<<"t","e","n","s","o","r","f","l","o","w">>, <<<<"t","e","n","s","o","r","f","l","o","w">>, <<"t","f">>>>>>,
    <<<<"k","e","r","a","s">>, <<<<"k","e","r","a","s">>>>>>,
    <<<<"s","k","l","e","a","r","n">>, <<<<"s","c","i","k","i","t","-","l","e","a","r","n">>, <<"s","k","l","e","a","r","n">>>>>>,
    <<<<"p","a","n","d","a","s">>, <<<<"p","a","n","d","a","s">>>>>>,
    <<<<"n","u","m","p","y">>, <<<<"n","u","m","p","y">>>>>>,
    <<<<"s","c","i","p","y">>, <<<<"s","c","i","p","y">>>>>>,
    <<<<"m","a","t","p","l","o","t","l","i","b">>, <<<<"m","a","t","p","l","o","t","l","i","b">>>>>>,
    <<<<"p","l","o","t","l","y">>, <<<<"p","l","o","t","l","y">>>>>>,
    <<<<"j","u","p","y","t","e","r">>, <<<<"j","u","p","y","t","e","r">>, <<"j","u","p","y","t","e","r","l","a","b">>>>>> >>

\* the packages of every topic whose key is a substring of the name
topic_packages(env_name_lower) ==
    UNION {Range(package_mappings[k][2]) :
             k \in {j \in 1..Len(package_mappings) :
                      Contains(env_name_lower, package_mappings[j][1])}}

\* dep.split('=')[0].split('[')[0].strip()
conda_mention_name(dep) == strip(before_first(before_first(dep, {"="}), {"["}))

\* re.split(r'[=><]', pip_dep)[0].strip()
pip_mention_name(pip_dep) == strip(before_first(pip_dep, {"=", ">", "<"}))

\* variant: a str under 'pip' is read as a list of one entry
pip_strs_scalar(dep) ==
    IF /\ dep.t = "dict"
       /\ "pip" \in DOMAIN dep.dv
       /\ truthy(dep.dv["pip"])
       /\ dep.dv["pip"].t \in {"list", "str"}
    THEN LET l == IF dep.dv["pip"].t = "list" THEN dep.dv["pip"].lv
                  ELSE << dep.dv["pip"] >>
         IN  [k \in 1..Len(l) |-> IF l[k].t = "str" THEN <<l[k].sv>> ELSE <<>>]
    ELSE <<>>

\* the str entries of dep['pip'] when dep is a dict with a non-empty list
\* under 'pip'; no entries otherwise
pip_strs(dep) ==
    IF /\ dep.t = "dict"
       /\ "pip" \in DOMAIN dep.dv
       /\ truthy(dep.dv["pip"])
       /\ dep.dv["pip"].t = "list"
    THEN LET l == dep.dv["pip"].lv
         IN  [k \in 1..Len(l) |-> IF l[k].t = "str" THEN <<l[k].sv>> ELSE <<>>]
    ELSE <<>>

\* variant: every package of the manifest is relevant, mentioned or not
relevant_packages_all(dependencies, env_name_lower) ==
    topic_packages(env_name_lower)
    \cup {conda_mention_name(dependencies[j].sv) :
            j \in {k \in 1..Len(dependencies) : dependencies[k].t = "str"}}
    \cup UNION {{pip_mention_name(e[1]) :
                   e \in {x \in Range(pip_strs(dependencies[j])) : x # <<>>}} :
                j \in 1..Len(dependencies)}

\* relevant_packages after the two loops that fill it
relevant_packages(dependencies, env_name_lower) ==
    LET conda == {conda_mention_name(dependencies[j].sv) :
                    j \in {k \in 1..Len(dependencies) : dependencies[k].t = "str"}}
        pip == UNION {{pip_mention_name(e[1]) :
                         e \in {x \in Range(pip_strs(dependencies[j])) : x # <<>>}} :
                      j \in 1..Len(dependencies)}
    IN  topic_packages(env_name_lower)
        \cup {p \in conda \cup pip : Contains(env_name_lower, lower(p))}

\* pkg_matches_relevant of the conda branch
conda_matches(pkg_name, relevant) ==
    LET low == {lower(p) : p \in relevant}
        n == lower(pkg_name)
    IN  IF n \in low THEN TRUE
        ELSE IF startswith(n, <<"r","-">>) THEN lower(From(pkg_name, 3)) \in low
        ELSE IF startswith(n, <<"p","y","-">>) THEN lower(From(pkg_name, 4)) \in low
        ELSE FALSE

\* base_pkg_name of the conda branch
base_pkg_name(pkg_name) ==
    LET n == lower(pkg_name)
    IN  IF startswith(n, <<"r","-">>) THEN From(n, 3)
        ELSE IF startswith(n, <<"p","y","-">>) THEN From(n, 4)
        ELSE n

\* the conda branch of the second loop, for one str entry
record_conda(dep, relevant, versions) ==
    LET parts == split(dep, "=")
    IN  IF Len(parts) >= 2 /\ conda_matches(strip(parts[1]), relevant)
        THEN dict_put(versions, base_pkg_name(strip(parts[1])), strip(parts[2]))
        ELSE versions

\* re.match(r'([^=><]+)[=><]+(.+)', pip_dep)
pip_match(pip_dep) ==
    LET ops == {"=", ">", "<"}
        n == RunNotOf(pip_dep, 1, ops)
        k == RunOf(pip_dep, n + 1, ops)
        a == RunNotOf(pip_dep, n + k + 1, {"\n"})
    IN  IF n = 0 \/ k = 0 THEN [ok |-> FALSE, pkg_name |-> <<>>, version |-> <<>>]
        ELSE IF a > 0
        THEN [ok |-> TRUE, pkg_name |-> SubSeq(pip_dep, 1, n),
              version |-> SubSeq(pip_dep, n + k + 1, n + k + a)]
        ELSE IF k >= 2
        THEN [ok |-> TRUE, pkg_name |-> SubSeq(pip_dep, 1, n),
              version |-> <<pip_dep[n + k]>>]
        ELSE [ok |-> FALSE, pkg_name |-> <<>>, version |-> <<>>]

\* the pip branch of the second loop, for one str entry of the pip list
record_pip(pip_dep, relevant, versions) ==
    LET m == pip_match(pip_dep)
        n == lower(strip(m.pkg_name))
    IN  IF m.ok /\ n \in {lower(p) : p \in relevant}
        THEN dict_put(versions, n, strip(m.version))
        ELSE versions

RECURSIVE record_pip_list(_, _, _, _)
record_pip_list(l, i, relevant, versions) ==
    IF i > Len(l) THEN versions
    ELSE record_pip_list(l, i + 1, relevant,
            IF l[i] = <<>> THEN versions ELSE record_pip(l[i][1], relevant, versions))

\* the second loop over dependencies, in manifest order
RECURSIVE record_versions(_, _, _, _)
record_versions(dependencies, i, relevant, versions) ==
    IF i > Len(dependencies) THEN versions
    ELSE LET dep == dependencies[i]
         IN  record_versions(dependencies, i + 1, relevant,
                IF dep.t = "str" THEN record_conda(dep.sv, relevant, versions)
                ELSE record_pip_list(pip_strs(dep), 1, relevant, versions))

\* the body of the try block: raised tells that an exception left it
extract_try(yaml_file, env_name) ==
    IF yaml_file.file = "unreadable" THEN [raised |-> TRUE, ret |-> EmptyDict]
    ELSE LET env_data == yaml_file.doc
         IN  IF ~truthy(env_data) \/ env_data.t # "dict"
             THEN [raised |-> FALSE, ret |-> EmptyDict]
             ELSE LET dependencies ==
                          IF "dependencies" \in DOMAIN env_data.dv
                          THEN env_data.dv["dependencies"]
                          ELSE PyList(<<>>)
                  IN  IF dependencies.t = "None" \/ dependencies.t # "list"
                      THEN [raised |-> FALSE, ret |-> EmptyDict]
                      ELSE [raised |-> FALSE,
                            ret |-> record_versions(dependencies.lv, 1,
                                       relevant_packages(dependencies.lv, lower(env_name)),
                                       EmptyDict)]

\* variant: the handler lets the exception through
extract_reraise(r) == r

\* except Exception: log a warning and return {}
extract_except(r) == IF r.raised THEN [raised |-> FALSE, ret |-> EmptyDict] ELSE r

extract_package_versions_from_yaml(yaml_file, env_name) ==
    extract_except(extract_try(yaml_file, env_name))

(***************************************************************************)
(* _add_package_versions_to_name                                           *)
(***************************************************************************)
\* the keys of a dict in sorted() order
RECURSIVE sorted_keys(_)
sorted_keys(ks) ==
    IF ks = {} THEN <<>>
    ELSE LET m == CHOOSE k \in ks : \A o \in ks : o = k \/ str_less(k, o)
         IN  <<m>> \o sorted_keys(ks \ {m})

\* variant: the first three packages are considered
first_three(l) == IF Len(l) <= 3 THEN l ELSE SubSeq(l, 1, 3)

\* sorted_packages[:2]
first_two(l) == IF Len(l) <= 2 THEN l ELSE SubSeq(l, 1, 2)

\* variant: 'py' is removed only at the end and 'r-' only at the start
pkg_variations_affix(pkg_name) ==
    LET n == lower(pkg_name)
    IN  << n,
           IF Len(n) >= 2 /\ OccursAt(n, Len(n) - 1, <<"p","y">>)
           THEN SubSeq(n, 1, Len(n) - 2) ELSE n,
           IF OccursAt(n, 1, <<"r","-">>) THEN From(n, 3) ELSE n,
           before_first(n, {"-"}) >>

\* pkg_variations
pkg_variations(pkg_name) ==
    LET n == lower(pkg_name)
    IN  << n,
           replace_empty(n, <<"p","y">>),
           replace_empty(n, <<"r","-">>),
           before_first(n, {"-"}) >>

\* variant: only the bare package name is looked for
package_in_name_bare(pkg_name, base_name) ==
    Contains(lower(base_name), lower(pkg_name)) /\ Len(pkg_name) > 2

\* package_in_name after the loop over the variations
package_in_name(pkg_name, base_name) ==
    \E k \in 1..4 :
        LET variation == pkg_variations(pkg_name)[k]
        IN  Contains(lower(base_name), variation) /\ Len(variation) > 2

\* variant: every part of the split version is kept
leading_parts_all(version_parts) == join(<<>>, version_parts)

\* the first three parts of a split version, or both of two, or the first
leading_parts(version_parts) ==
    IF Len(version_parts) >= 3
    THEN version_parts[1] \o version_parts[2] \o version_parts[3]
    ELSE IF Len(version_parts) = 2
    THEN version_parts[1] \o version_parts[2]
    ELSE version_parts[1]

\* the test that selects the alpha/beta branch
is_prerelease(version) ==
    \/ Contains(version, <<"a">>)
    \/ Contains(version, <<"b">>)
    \/ Contains(version, <<"r","c">>)
    \/ Contains(version, <<"d","e","v">>)

\* re.match(r'([0-9.]+)([a-zA-Z]+[0-9]*)', version)
version_match(version) ==
    LET n == RunOf(version, 1, Digit \cup {"."})
        l == RunOf(version, n + 1, Letter)
        d == RunOf(version, n + l + 1, Digit)
    IN  IF n > 0 /\ l > 0
        THEN [ok |-> TRUE, numeric_part |-> SubSeq(version, 1, n),
              suffix |-> SubSeq(version, n + 1, n + l + d)]
        ELSE [ok |-> FALSE, numeric_part |-> <<>>, suffix |-> <<>>]

\* re.sub(r'[^\d]', '', s)
digits_only(s) == SelectSeq(s, LAMBDA c : c \in Digit)

\* variant: the alpha/beta branch is missing
clean_version_plain(version) == digits_only(leading_parts(split(version, ".")))

\* clean_version
clean_version(version) ==
    IF is_prerelease(version)
    THEN LET m == version_match(version)
         IN  IF m.ok
             THEN leading_parts(split(m.numeric_part, ".")) \o m.suffix
             ELSE replace_empty(version, <<".">>)
    ELSE digits_only(leading_parts(split(version, ".")))

\* version_suffix
version_suffix(pkg_name, version) == pkg_name \o clean_version(version)

\* added_versions after the loop over sorted_packages[:2]
added_versions(base_name, package_versions) ==
    LET considered == first_two(sorted_keys(DOMAIN package_versions))
        kept == SelectSeq(considered, LAMBDA p : package_in_name(p, base_name))
    IN  [k \in 1..Len(kept) |-> version_suffix(kept[k], package_versions[kept[k]])]

\* variant: the suffixes are joined in descending package-name order
add_package_versions_reversed(base_name, package_versions) ==
    IF DOMAIN package_versions = {} THEN base_name
    ELSE LET added == added_versions(base_name, package_versions)
         IN  IF added # <<>>
             THEN base_name \o <<"_">>
                  \o join(<<"_">>, [k \in 1..Len(added) |-> added[Len(added) + 1 - k]])
             ELSE base_name

add_package_versions_to_name(base_name, package_versions) ==
    IF DOMAIN package_versions = {} THEN base_name
    ELSE LET added == added_versions(base_name, package_versions)
         IN  IF added # <<>> THEN base_name \o <<"_">> \o join(<<"_">>, added)
             ELSE base_name

(***************************************************************************)
(* generate_new_name                                                       *)
(***************************************************************************)
\* variant: the dots of the version are kept
py_suffix_dotted(python_version) == <<"_","p","y">> \o python_version

\* f"_py{python_version.replace('.', '')}"
py_suffix(python_version) == <<"_","p","y">> \o replace_empty(python_version, <<".">>)

\* f"_r{r_version.replace('.', '')}"
r_suffix(r_version) == <<"_","r">> \o replace_empty(r_version, <<".">>)

\* variant: only the first existing name is compared
name_taken_first_only(candidate, existing, old) ==
    (existing # <<>> /\ candidate = existing[1]) \/ candidate = lower(old)

\* the condition of the while loop
name_taken(candidate, existing, old) ==
    candidate \in Range(existing) \/ candidate = lower(old)

\* variant: the numbering starts at 0
versioned_name_from_zero(original, n) == original \o <<"_","v">> \o int_str(n - 1)

\* f"{original_new_name}_v{counter}"
versioned_name(original, n) == original \o <<"_","v">> \o int_str(n)

\* the while loop, from candidate number n on
RECURSIVE resolve_conflicts(_, _, _, _)
resolve_conflicts(original, n, existing, old) ==
    IF name_taken(versioned_name(original, n), existing, old)
    THEN resolve_conflicts(original, n + 1, existing, old)
    ELSE versioned_name(original, n)

\* new_name after the package, Python and R suffixes were appended to the
\* cleaned base; a suffix that is not appended adds nothing
with_suffixes(cleaned, versions, py, r) ==
    (IF DOMAIN versions # {} THEN add_package_versions_to_name(cleaned, versions)
     ELSE cleaned)
    \o (IF py.some /\ py.s # <<>> THEN py_suffix(py.s) ELSE <<>>)
    \o (IF r.some /\ r.s # <<>> THEN r_suffix(r.s) ELSE <<>>)

\* the name before the conflict loop
assembled_name(old, py, r, yaml) ==
    with_suffixes(clean_existing_versions(lower(old)),
                  IF yaml.file \in {"ok", "unreadable"}
                  THEN extract_package_versions_from_yaml(yaml, old).ret
                  ELSE EmptyDict,
                  py, r)

\* the conflict loop as a function of the assembled name
resolve(candidate, existing, old) ==
    IF name_taken(candidate, existing, old)
    THEN resolve_conflicts(candidate, 1, existing, old)
    ELSE candidate

\* the whole call, as a function of its arguments
generate_new_name(old, py, r, existing, yaml) ==
    resolve(assembled_name(old, py, r, yaml), existing, old)

(***************************************************************************)
(* State                                                                   *)
(***************************************************************************)
VARIABLES
    name,               \* argument of the latest _clean_existing_versions call
    cleaned_name,       \* its return value
    calls,              \* number of calls made, each on the previous return value
    old_name,           \* arguments of generate_new_name
    python_version,
    r_version,
    existing_names,
    yaml_file,
    base_name,          \* locals of generate_new_name
    cleaned_base,
    package_versions,
    new_name,
    original_new_name,
    counter,
    raised,             \* an exception left the call
    pc                  \* position in generate_new_name

cleanVars == <<name, cleaned_name, calls>>

argVars == <<old_name, python_version, r_version, existing_names, yaml_file>>

localVars == <<base_name, cleaned_base, package_versions, new_name,
               original_new_name, counter, raised, pc>>

nameVars == <<argVars, localVars>>

(***************************************************************************)
(* State of the workflow around the naming engine: the installation, one   *)
(* batch or preview run over a list of environments, one call of           *)
(* _is_environment_empty, and one run of the YAML analyzer                 *)
(***************************************************************************)
VARIABLES
    yaml_data,          \* argument of _is_environment_empty
    empty_result,       \* its outcome
    environments,       \* the list a batch or preview run walks through
    installed,          \* the installation: environment name -> dependencies
    index,              \* position of the run in environments
    step,               \* position in the current call
    exported,           \* yaml_file of process_environment
    target_name,        \* new_name of process_environment
    commands,           \* create, verify and remove commands issued so far
    results,            \* return values of the process_environment calls
    successful,         \* counters of the batch run
    failed,
    report,             \* lines printed by _preview_changes
    unchanged,          \* counters of _preview_changes
    renamed,
    conflicts,
    yaml_files,         \* files of the analyzed directory
    analysis,           \* Dict[str, Dict] built by analyze_yaml_files
    deleted             \* files unlinked by cleanup_duplicates

emptyVars == <<yaml_data, empty_result>>

runVars == <<environments, installed, index, step, exported, target_name,
             commands, results, successful, failed>>

previewVars == <<report, unchanged, renamed, conflicts>>

analyzerVars == <<yaml_files, analysis, deleted>>

workflowVars == <<emptyVars, runVars, previewVars, analyzerVars>>

vars == <<cleanVars, nameVars, workflowVars>>

\* no call of _is_environment_empty
EmptyIdle ==
    /\ yaml_data = PyNone
    /\ empty_result = [raised |-> FALSE, ret |-> FALSE]

\* no batch run
RunIdle ==
    /\ environments = <<>>
    /\ installed = <<>>
    /\ index = 0
    /\ step = "idle"
    /\ exported = [kind |-> "None", doc |-> PyNone]
    /\ target_name = <<>>
    /\ commands = <<>>
    /\ results = <<>>
    /\ successful = 0
    /\ failed = 0

\* no preview
PreviewIdle ==
    /\ report = <<>>
    /\ unchanged = 0
    /\ renamed = 0
    /\ conflicts = 0

\* no run of the analyzer
AnalyzerIdle ==
    /\ yaml_files = <<>>
    /\ analysis = <<>>
    /\ deleted = {}

WorkflowIdle ==
    /\ EmptyIdle
    /\ RunIdle
    /\ PreviewIdle
    /\ AnalyzerIdle

(***************************************************************************)
(* Bounds and inputs                                                       *)
(***************************************************************************)
MaxLen == 6

MaxExisting == 3

CleanAlphabet == {"a", "r", "1", "_", ".", "v"}

TestNames == {
    <<"p","y","_","j","j","a","n","s","_","3",".","1","0","_","s","c","a","n","p","y">>, <<"r","_","j","j","a","n","s","_","4",".","2","_","s","e","u","r","a","t">>, <<"r","_","j","j","a","n","s","_","4",".","2","_","c","i","s","t","o","p","i","c">>,
    <<"m","y","_","p","y","3","t","o","o","l","s">>, <<"d","a","t","a","_","r","2","d","2">>, <<"c","l","u","s","t","e","r","2">>, <<"n","e","u","r","o","n","c","h","a","t","_","r","4","0","5">>,
    <<"s","c","e","n","i","c","p","l","u","s","_","v","1","0","2">>, <<"t","e","s","t","_","e","n","v","_","p","y","3","1","0">>, <<"a","b","_","v","1","_","v","2">>, <<"a","b","r","4","r","5">>,
    <<"a","b","_","p","y","t","h","o","n","3",".","9">>, <<"a","b","_","r","_","4",".","2">>, <<"a","b","_","3",".","1","_","p","y","3","1">>, <<"a","b","_","4",".","2","_","r","4","2">>, <<"a","b","_","3",".","1",".","2">>,
    <<"a","_","p","_","p","y","3","y","3","x">>, <<"_","a","b","_","_","c","d","_">>, <<"x","_","p","y","3","1","0","_","v","1">>, <<"a","b","_","p","y","3","p","y","3">>, <<"s","c","a","n","p","y","_","a","n","a","l","y","s","i","s">> }

Names == UNION {[1..n -> CleanAlphabet] : n \in 0..MaxLen} \cup TestNames

OldNames == {
    <<"t","e","s","t","_","e","n","v">>, <<"t","e","s","t","_","e","n","v","_","p","y","3","1","0">>, <<"T","e","s","t","_","E","n","v">>, <<"g","e","n","e","r","a","l","_","a","n","a","l","y","s","i","s">>,
    <<"s","c","a","n","p","y","_","a","n","a","l","y","s","i","s">>, <<"h","a","r","m","o","n","y","_","i","n","t","e","g","r","a","t","i","o","n">>, <<"n","u","m","_","a","b">>, <<"a","b","_","p","y","3","p","y","3">>,
    <<"R","_","j","j","a","n","s","_","4",".","2","_","s","e","u","r","a","t">>, <<"p","y","3","x","_","p","y","3","1","p","y","3">>, <<"s","c","a","n","p","y","_","h","a","r","m","o","n","y">> }

PythonVersions == {NoStr, SomeStr(<<"3",".","1","0">>), SomeStr(<<"3","P","Y","3">>)}

RVersions == {NoStr, SomeStr(<<"4",".","2">>)}

ExistingPool == {
    <<"t","e","s","t","_","e","n","v","_","p","y","3","1","0">>, <<"t","e","s","t","_","e","n","v","_","p","y","3","1","0","_","v","1">>, <<"t","e","s","t","_","e","n","v","_","p","y","3","1","0","_","v","2">>,
    <<"s","c","a","n","p","y","_","a","n","a","l","y","s","i","s","_","s","c","a","n","p","y","1","9","1","_","p","y","3","1","0">> }

\* lists of at most MaxExisting different names of the pool, in every order
ExistingLists ==
    UNION {{l \in [1..n -> ExistingPool] : \A i, j \in 1..n : l[i] = l[j] => i = j} :
             n \in 0..MaxExisting}

Deps(l) == PyDict([k \in {"name", "dependencies"} |->
                     IF k = "name" THEN PyStr(<<"e","n","v">>) ELSE l])

Pip(l) == PyDict([k \in {"pip"} |-> l])

YamlFiles ==
    {[file |-> f, doc |-> PyNone] : f \in {"none", "missing", "unreadable"}}
    \cup {[file |-> "ok", doc |-> d] : d \in {
        PyNone,
        PyStr(<<"s","c","a","n","p","y","=","1",".","9",".","1">>),
        PyDict([k \in {"name"} |-> PyStr(<<"e","n","v">>)]),
        Deps(PyNone),
        Deps(PyStr(<<"s","c","a","n","p","y","=","1",".","9",".","1">>)),
        Deps(PyList(<< PyStr(<<"s","c","a","n","p","y","=","1",".","9",".","1">>), PyStr(<<"p","a","n","d","a","s","=","1",".","4",".","4">>) >>)),
        Deps(PyList(<< PyStr(<<"s","c","a","n","p","y","=","1",".","8",".","0","=","p","y","_","0">>), PyStr(<<"p","a","n","d","a","s","=","1",".","4",".","4">>),
                       Pip(PyList(<< PyStr(<<"h","a","r","m","o","n","y","p","y","=","=","0",".","0",".","9">>) >>)) >>)),
        Deps(PyList(<< PyStr(<<"s","c","a","n","p","y","=","1",".","9",".","1">>), PyStr(<<"p","a","n","d","a","s","=","1",".","4",".","4">>),
                       PyStr(<<"n","u","m","p","y","=","1",".","2","1",".","5">>), PyStr(<<"m","a","t","p","l","o","t","l","i","b","=","3",".","5",".","2">>) >>)),
        Deps(PyList(<< PyStr(<<"r","-","s","e","u","r","a","t","=","4",".","3",".","0">>), PyStr(<<"s","e","u","r","a","t","=","5",".","0",".","0">>) >>)),
        Deps(PyList(<< PyInt(3), PyNone, PyStr(<<"=","1",".","0">>), PyStr(<<"s","c","a","n","p","y">>),
                       PyDict([k \in {"conda"} |-> PyList(<<>>)]),
                       Pip(PyStr(<<"s","c","a","n","p","y","=","=","1",".","9",".","1">>)), Pip(PyNone),
                       Pip(PyList(<< PyInt(1), PyStr(<<"s","c","a","n","p","y">>), PyStr(<<"s","c","a","n","p","y","=","=">>) >>)) >>)),
        Deps(PyList(<< PyStr(<<"p","y","3","=","1","P","Y","3","a">>) >>)) }}

(***************************************************************************)
(* Specification of _clean_existing_versions called on its own result      *)
(***************************************************************************)
NameIdle ==
    /\ old_name = <<>>
    /\ python_version = NoStr
    /\ r_version = NoStr
    /\ existing_names = <<>>
    /\ yaml_file = [file |-> "none", doc |-> PyNone]
    /\ base_name = <<>>
    /\ cleaned_base = <<>>
    /\ package_versions = EmptyDict
    /\ new_name = <<>>
    /\ original_new_name = <<>>
    /\ counter = 0
    /\ raised = FALSE
    /\ pc = "idle"

InitClean ==
    /\ name \in Names
    /\ cleaned_name = name
    /\ calls = 0
    /\ NameIdle
    /\ WorkflowIdle

CallClean ==
    /\ calls < 2
    /\ name' = cleaned_name
    /\ cleaned_name' = clean_existing_versions(cleaned_name)
    /\ calls' = calls + 1
    /\ UNCHANGED <<nameVars, workflowVars>>

NextClean == CallClean

SpecClean == InitClean /\ [][NextClean]_vars

(***************************************************************************)
(* Specification of one call of generate_new_name                          *)
(***************************************************************************)
CleanIdle ==
    /\ name = <<>>
    /\ cleaned_name = <<>>
    /\ calls = 0

InitName ==
    /\ old_name \in OldNames
    /\ python_version \in PythonVersions
    /\ r_version \in RVersions
    /\ existing_names \in ExistingLists
    /\ yaml_file \in YamlFiles
    /\ base_name = <<>>
    /\ cleaned_base = <<>>
    /\ package_versions = EmptyDict
    /\ new_name = <<>>
    /\ original_new_name = <<>>
    /\ counter = 0
    /\ raised = FALSE
    /\ pc = "start"
    /\ CleanIdle
    /\ WorkflowIdle

\* base_name = old_name.lower(); cleaned_base = self._clean_existing_versions(base_name)
CleanBase ==
    /\ pc = "start"
    /\ base_name' = lower(old_name)
    /\ cleaned_base' = clean_existing_versions(lower(old_name))
    /\ pc' = "extract"
    /\ UNCHANGED <<package_versions, new_name, original_new_name, counter, raised>>
    /\ UNCHANGED <<argVars, cleanVars, workflowVars>>

\* package_versions = {}; if yaml_file and yaml_file.exists(): extract
ExtractPackages ==
    /\ pc = "extract"
    /\ LET r == IF yaml_file.file \in {"ok", "unreadable"}
                THEN extract_package_versions_from_yaml(yaml_file, old_name)
                ELSE [raised |-> FALSE, ret |-> EmptyDict]
       IN  /\ package_versions' = r.ret
           /\ raised' = r.raised
           /\ pc' = IF r.raised THEN "raised" ELSE "packages"
    /\ UNCHANGED <<base_name, cleaned_base, new_name, original_new_name, counter>>
    /\ UNCHANGED <<argVars, cleanVars, workflowVars>>

\* new_name = cleaned_base; if package_versions: add the package versions
AddPackages ==
    /\ pc = "packages"
    /\ new_name' = IF DOMAIN package_versions # {}
                   THEN add_package_versions_to_name(cleaned_base, package_versions)
                   ELSE cleaned_base
    /\ pc' = "python"
    /\ UNCHANGED <<base_name, cleaned_base, package_versions, original_new_name,
                   counter, raised>>
    /\ UNCHANGED <<argVars, cleanVars, workflowVars>>

\* if python_version: new_name += py_suffix
AddPython ==
    /\ pc = "python"
    /\ new_name' = IF python_version.some /\ python_version.s # <<>>
                   THEN new_name \o py_suffix(python_version.s)
                   ELSE new_name
    /\ pc' = "r"
    /\ UNCHANGED <<base_name, cleaned_base, package_versions, original_new_name,
                   counter, raised>>
    /\ UNCHANGED <<argVars, cleanVars, workflowVars>>

\* if r_version: new_name += r_suffix; original_new_name = new_name; counter = 1
AddR ==
    /\ pc = "r"
    /\ new_name' = IF r_version.some /\ r_version.s # <<>>
                   THEN new_name \o r_suffix(r_version.s)
                   ELSE new_name
    /\ original_new_name' = new_name'
    /\ counter' = 1
    /\ pc' = "conflicts"
    /\ UNCHANGED <<base_name, cleaned_base, package_versions, raised>>
    /\ UNCHANGED <<argVars, cleanVars, workflowVars>>

\* one iteration of the while loop
NextCandidate ==
    /\ pc = "conflicts"
    /\ name_taken(new_name, existing_names, old_name)
    /\ new_name' = versioned_name(original_new_name, counter)
    /\ counter' = counter + 1
    /\ UNCHANGED <<base_name, cleaned_base, package_versions, original_new_name,
                   raised, pc>>
    /\ UNCHANGED <<argVars, cleanVars, workflowVars>>

\* the loop condition is false: return new_name
Return ==
    /\ pc = "conflicts"
    /\ ~name_taken(new_name, existing_names, old_name)
    /\ pc' = "done"
    /\ UNCHANGED <<base_name, cleaned_base, package_versions, new_name,
                   original_new_name, counter, raised>>
    /\ UNCHANGED <<argVars, cleanVars, workflowVars>>

NextName ==
    \/ CleanBase
    \/ ExtractPackages
    \/ AddPackages
    \/ AddPython
    \/ AddR
    \/ NextCandidate
    \/ Return

SpecName == InitName /\ [][NextName]_vars

(***************************************************************************)
(* The same call with the inputs that exercise the conflict loop.  A call  *)
(* is sequential code: once in the while loop it keeps taking the loop's   *)
(* steps until the condition is false, which is weak fairness of the two   *)
(* steps of the loop.                                                      *)
(***************************************************************************)
InitConflict ==
    /\ InitName
    /\ old_name \in {<<"t","e","s","t","_","e","n","v">>, <<"t","e","s","t","_","e","n","v","_","p","y","3","1","0">>, <<"T","e","s","t","_","E","n","v">>, <<"s","c","a","n","p","y","_","a","n","a","l","y","s","i","s">>}
    /\ python_version \in {NoStr, SomeStr(<<"3",".","1","0">>)}
    /\ r_version = NoStr
    /\ yaml_file.file \in {"none", "unreadable"}
          \/ yaml_file.doc = Deps(PyList(<< PyStr(<<"s","c","a","n","p","y","=","1",".","9",".","1">>), PyStr(<<"p","a","n","d","a","s","=","1",".","4",".","4">>) >>))

SpecConflictFair ==
    /\ InitConflict
    /\ [][NextName]_vars
    /\ WF_vars(NextCandidate)
    /\ WF_vars(Return)

(***************************************************************************)
(* Specification of _extract_package_versions_from_yaml called on its own, *)
(* as the tests of the repository call it: old_name holds env_name,        *)
(* package_versions the returned dict.                                     *)
(***************************************************************************)
MaxEntries == 2

EnvNames == {
    <<"s","c","a","n","p","y","_","a","n","a","l","y","s","i","s">>, <<"s","e","u","r","a","t","_","f","o","o">>, <<"h","a","r","m","o","n","y","_","i","n","t","e","g","r","a","t","i","o","n">>, <<"f","o","o","_","e","n","v">>,
    <<"g","e","n","e","r","a","l","_","a","n","a","l","y","s","i","s">>, <<"T","e","s","t","_","S","c","a","n","p","y">> }

\* dependency entries of a manifest: conda strs, pip groups, and entries of
\* other shapes
EntryPool == {
    PyStr(<<"s","c","a","n","p","y","=","1",".","9",".","1">>),
    PyStr(<<"S","c","a","n","p","y","=","1",".","8",".","0","=","p","y","_","0">>),
    PyStr(<<"r","-","s","e","u","r","a","t","=","4",".","3",".","0">>),
    PyStr(<<"s","e","u","r","a","t","=","5",".","0",".","0">>),
    PyStr(<<"f","o","o","=","2",".","0">>),
    PyStr(<<"p","y","-","f","o","o","=","3",".","0">>),
    PyStr(<<"p","a","n","d","a","s","=","1",".","4",".","4">>),
    Pip(PyList(<< PyStr(<<"s","c","a","n","p","y","=","=","1",".","7",".","2">>) >>)),
    Pip(PyList(<< PyStr(<<"p","y","-","f","o","o","=","=","1",".","0">>) >>)),
    Pip(PyList(<< PyStr(<<"s","c","a","n","p","y","~","=","1",".","9",".","1">>) >>)),
    Pip(PyList(<< PyStr(<<"s","c","a","n","p","y","<","=","2",".","0","a","0">>) >>)),
    Pip(PyList(<< PyStr(<<"S","c","a","n","p","y"," ","!","="," ","1",".","0">>) >>)),
    Pip(PyList(<< PyStr(<<"r","-","s","e","u","r","a","t",">","=","4",".","0">>), PyStr(<<"h","a","r","m","o","n","y","p","y","=","=","0",".","0",".","9">>) >>)),
    PyInt(3),
    PyDict([k \in {"conda"} |-> PyList(<< PyStr(<<"s","c","a","n","p","y","=","1",".","0">>) >>)]),
    Pip(PyStr(<<"s","c","a","n","p","y","=","=","1",".","9",".","1">>)) }

\* manifests of at most MaxEntries entries, and the documents of YamlFiles
ExtractFiles ==
    YamlFiles
    \cup {[file |-> "ok", doc |-> Deps(PyList(l))] :
            l \in UNION {[1..n -> EntryPool] : n \in 0..MaxEntries}}

ExtractIdle ==
    /\ python_version = NoStr
    /\ r_version = NoStr
    /\ existing_names = <<>>
    /\ base_name = <<>>
    /\ cleaned_base = <<>>
    /\ new_name = <<>>
    /\ original_new_name = <<>>
    /\ counter = 0
    /\ CleanIdle

InitExtract ==
    /\ old_name \in EnvNames
    /\ yaml_file \in {f \in ExtractFiles : f.file \in {"ok", "unreadable"}}
    /\ package_versions = EmptyDict
    /\ raised = FALSE
    /\ pc = "call_extract"
    /\ ExtractIdle
    /\ WorkflowIdle

\* self._extract_package_versions_from_yaml(yaml_file, env_name)
CallExtract ==
    /\ pc = "call_extract"
    /\ LET r == extract_package_versions_from_yaml(yaml_file, old_name)
       IN  /\ package_versions' = r.ret
           /\ raised' = r.raised
    /\ pc' = "extract_returned"
    /\ UNCHANGED <<base_name, cleaned_base, new_name, original_new_name, counter>>
    /\ UNCHANGED <<argVars, cleanVars, workflowVars>>

NextExtract == CallExtract

SpecExtract == InitExtract /\ [][NextExtract]_vars

(***************************************************************************)
(* Specification of _add_package_versions_to_name called on its own:       *)
(* cleaned_base holds base_name, new_name the returned name.               *)
(***************************************************************************)
MaxVersionLen == 4

MaxPackages == 3

VersionAlphabet == {"1", "2", ".", "a", "r", "c", "x"}

TestVersions == {
    <<"1",".","9",".","1">>, <<"2",".","0","a","0">>, <<"3",".","1","b","2">>, <<"1",".","5","r","c","1">>, <<"0",".","2","d","e","v">>, <<"1",".","0">>, <<"1",".","2",".","3",".","4">>,
    <<"0",".","0",".","9">>, <<"1",".","2",".","3",".","4","a","1">>, <<"1",".","0","p","o","s","t","1">>, <<"d","e","v">>, <<"=">>, <<"1",".","0","-","a","1">>, <<"2",".","0","A","0">> }

Versions == UNION {[1..n -> VersionAlphabet] : n \in 0..MaxVersionLen} \cup TestVersions

\* packages with the version each has in the dicts of several packages
PackagePool == {
    <<<<"h","a","r","m","o","n","y","p","y">>, <<"0",".","0",".","9">>>>, <<<<"n","u","m","p","y">>, <<"1",".","2","1",".","5">>>>, <<<<"p","a","n","d","a","s">>, <<"1",".","4",".","4">>>>,
    <<<<"p","y","s","c","e","n","i","c">>, <<"0",".","1","2",".","3">>>>, <<<<"s","c","a","n","p","y">>, <<"1",".","9",".","1">>>>, <<<<"s","e","u","r","a","t">>, <<"5",".","0",".","0">>>>,
    <<<<"r","-","s","e","u","r","a","t">>, <<"4",".","3",".","0">>>>, <<<<"s","c","i","k","i","t","-","l","e","a","r","n">>, <<"1",".","1",".","0">>>>, <<<<"c","o","p","y","r","e","g">>, <<"1",".","0">>>>,
    <<<<"b","a","r","-","f","o","o">>, <<"2",".","0">>>>, <<<<"a","b">>, <<"1",".","0">>>> }

PoolVersion(p) == (CHOOSE e \in PackagePool : e[1] = p)[2]

\* the dicts of at most MaxPackages packages of the pool
PackageDicts ==
    {[p \in ks |-> PoolVersion(p)] :
        ks \in {s \in SUBSET {e[1] : e \in PackagePool} : Cardinality(s) <= MaxPackages}}

AddBases == {
    <<"s","c","a","n","p","y","_","a","n","a","l","y","s","i","s">>, <<"h","a","r","m","o","n","y","_","i","n","t","e","g","r","a","t","i","o","n">>, <<"s","c","e","n","i","c","_","x">>, <<"s","e","u","r","a","t","_","n","u","m","p","y","_","x">>,
    <<"s","c","i","k","i","t","_","x">>, <<"g","e","n","e","r","a","l">>, <<"c","o","r","e","g","_","x">>, <<"b","a","f","o","o","_","x">>, <<"T","e","s","t","_","S","c","a","n","p","y">>,
    <<"p","a","n","d","a","s","_","s","c","a","n","p","y","_","s","e","u","r","a","t">>, <<"a","b","_","x">> }

\* pairs of base_name and package_versions
AddInputs ==
    {<<<<"s","c","a","n","p","y","_","a","n","a","l","y","s","i","s">>, [p \in {<<"s","c","a","n","p","y">>} |-> v]>> : v \in Versions}
    \cup {<<<<"t","e","s","t","_","c","i","s","t","o","p","i","c">>, [p \in {<<"p","y","c","i","s","t","o","p","i","c">>} |-> v]>> : v \in TestVersions}
    \cup (AddBases \X PackageDicts)

AddIdle ==
    /\ old_name = <<>>
    /\ python_version = NoStr
    /\ r_version = NoStr
    /\ existing_names = <<>>
    /\ yaml_file = [file |-> "none", doc |-> PyNone]
    /\ base_name = <<>>
    /\ original_new_name = <<>>
    /\ counter = 0
    /\ raised = FALSE
    /\ CleanIdle

InitAdd ==
    /\ \E inp \in AddInputs :
          /\ cleaned_base = inp[1]
          /\ package_versions = inp[2]
    /\ new_name = <<>>
    /\ pc = "call_add"
    /\ AddIdle
    /\ WorkflowIdle

\* self._add_package_versions_to_name(base_name, package_versions)
CallAdd ==
    /\ pc = "call_add"
    /\ new_name' = add_package_versions_to_name(cleaned_base, package_versions)
    /\ pc' = "add_returned"
    /\ UNCHANGED <<base_name, cleaned_base, package_versions, original_new_name,
                   counter, raised>>
    /\ UNCHANGED <<argVars, cleanVars, workflowVars>>

NextAdd == CallAdd

SpecAdd == InitAdd /\ [][NextAdd]_vars

(***************************************************************************)
(* C1  The name generate_new_name returns is never equal to old_name when  *)
(* both are compared case-insensitively, and never a member of             *)
(* existing_names.                                                         *)
(***************************************************************************)
C1_ConflictFree ==
    pc = "done" =>
        /\ lower(new_name) # lower(old_name)
        /\ new_name \notin Range(existing_names)

(***************************************************************************)
(* C2  _clean_existing_versions is idempotent: cleaning the result of a    *)
(* cleaning returns that result.                                           *)
(***************************************************************************)
C2_Idempotent == calls = 2 => cleaned_name = name

(***************************************************************************)
(* C3  generate_new_name is deterministic: with the same old_name,         *)
(* versions and manifest, existing_names lists that hold the same elements *)
(* in any order give the same name.                                        *)
(***************************************************************************)
C3_SameElements(p, l) ==
    /\ Len(p) = Len(l)
    /\ \A x \in Range(l) \cup Range(p) :
           Cardinality({i \in 1..Len(p) : p[i] = x})
             = Cardinality({i \in 1..Len(l) : l[i] = x})

C3_Reorderings(l) == {p \in [1..Len(l) -> Range(l)] : C3_SameElements(p, l)}

C3_Deterministic ==
    pc = "done" =>
        \A p \in C3_Reorderings(existing_names) :
            resolve(original_new_name, p, old_name) = new_name

C3_Witness ==
    /\ pc = "done"
    /\ Len(existing_names) >= 2
    /\ new_name # original_new_name
    /\ existing_names[1] # original_new_name

(***************************************************************************)
(* C4  The name assembled before conflict resolution is the cleaned base,  *)
(* then the package suffixes, each preceded by '_', in sorted package-name *)
(* order, then '_py' + python_version without dots if present, then '_r' + *)
(* r_version without dots if present.                                      *)
(***************************************************************************)
C4_Considered ==
    {k \in DOMAIN package_versions :
        Cardinality({o \in DOMAIN package_versions : str_less(o, k)}) < 2}

C4_Kept == {k \in C4_Considered : package_in_name(k, cleaned_base)}

C4_PackagePart ==
    IF C4_Kept = {} THEN <<>>
    ELSE LET lo == CHOOSE k \in C4_Kept : \A o \in C4_Kept : o = k \/ str_less(k, o)
         IN  <<"_">> \o version_suffix(lo, package_versions[lo])
             \o (IF C4_Kept = {lo} THEN <<>>
                 ELSE LET hi == CHOOSE k \in C4_Kept : k # lo
                      IN  <<"_">> \o version_suffix(hi, package_versions[hi]))

C4_NoDots(s) == SelectSeq(s, LAMBDA c : c # ".")

C4_LanguagePart ==
    (IF python_version.some /\ python_version.s # <<>>
     THEN <<"_","p","y">> \o C4_NoDots(python_version.s) ELSE <<>>)
    \o (IF r_version.some /\ r_version.s # <<>>
        THEN <<"_","r">> \o C4_NoDots(r_version.s) ELSE <<>>)

C4_FixedOrder ==
    pc \in {"conflicts", "done"} =>
        original_new_name = cleaned_base \o C4_PackagePart \o C4_LanguagePart

C4_Witness ==
    /\ pc = "conflicts"
    /\ Cardinality(C4_Kept) = 2
    /\ python_version.some
    /\ r_version.some

(***************************************************************************)
(* C5  If no topic keyword of the package-mapping table and no package     *)
(* name of the manifest is a substring of the lower-cased old_name, no     *)
(* package suffix is added: the assembled name is the cleaned base plus    *)
(* the language suffixes, and it is the result when nothing conflicts.     *)
(***************************************************************************)
C5_Dependencies ==
    IF /\ yaml_file.file = "ok"
       /\ yaml_file.doc.t = "dict"
       /\ "dependencies" \in DOMAIN yaml_file.doc.dv
       /\ yaml_file.doc.dv["dependencies"].t = "list"
    THEN yaml_file.doc.dv["dependencies"].lv
    ELSE <<>>

C5_ManifestNames ==
    {conda_mention_name(d.sv) : d \in {x \in Range(C5_Dependencies) : x.t = "str"}}
    \cup UNION {{pip_mention_name(e[1]) : e \in {x \in Range(pip_strs(d)) : x # <<>>}} :
                  d \in Range(C5_Dependencies)}

C5_NothingMentioned ==
    /\ \A k \in 1..Len(package_mappings) :
           ~Contains(lower(old_name), package_mappings[k][1])
    /\ \A p \in C5_ManifestNames : ~Contains(lower(old_name), lower(p))

C6_Free(c) == c \notin Range(existing_names) /\ c # lower(old_name)

C6_Versioned(n) == original_new_name \o <<"_","v">> \o int_str(n)

C6_LeastFree ==
    pc = "done" =>
        IF C6_Free(original_new_name) THEN new_name = original_new_name
        ELSE \E n \in 1..(Len(existing_names) + 2) :
                /\ new_name = C6_Versioned(n)
                /\ C6_Free(C6_Versioned(n))
                /\ \A m \in 1..(n - 1) : ~C6_Free(C6_Versioned(m))

C6_ConflictLoop == ((pc = "conflicts") ~> (pc = "done")) /\ []C6_LeastFree

C6_Witness ==
    /\ pc = "done"
    /\ old_name = <<"t","e","s","t","_","e","n","v">>
    /\ python_version = SomeStr(<<"3",".","1","0">>)
    /\ r_version = NoStr
    /\ <<"t","e","s","t","_","e","n","v","_","p","y","3","1","0">> \in Range(existing_names)
    /\ new_name = <<"t","e","s","t","_","e","n","v","_","p","y","3","1","0","_","v","1">>

(***************************************************************************)
(* C7  No exception leaves generate_new_name, whatever the manifest is: no *)
(* file, an unreadable file, an empty or non-mapping document, entries of  *)
(* any shape; the call returns a str.                                      *)
(***************************************************************************)
C7_NoException ==
    /\ ~raised
    /\ pc # "raised"
    /\ pc = "done" => new_name \in Seq(Range(new_name))

C7_Witness ==
    /\ pc = "done"
    /\ yaml_file.file = "unreadable"

(***************************************************************************)
(* C8  _clean_existing_versions removes a Python or R version token only   *)
(* at token boundaries: it starts with '_' and is followed by '_' or the   *)
(* end of the name.  A name that has no such token (and none of the other  *)
(* version markers, and no '_' to tidy) is returned unchanged.             *)
(***************************************************************************)
C8_TokenAt(s, i) ==
    \E lit \in {<<"_","p","y">>, <<"_","p","y","t","h","o","n">>, <<"_","r">>, <<"_","r","_">>} :
        LET n == PrefixNumeral(s, i, lit)
        IN  n > 0 /\ (i + n > Len(s) \/ At(s, i + n) = "_")

C8_OtherMarkerAt(s, i) == pat_dotted(s, i) > 0 \/ pat_v_end(s, i) > 0

C8_Tidy(s) == strip_underscores(collapse_underscores(s)) = s

C8_TokenBoundary ==
    (/\ calls >= 1
     /\ C8_Tidy(name)
     /\ \A i \in 1..Len(name) : ~C8_TokenAt(name, i) /\ ~C8_OtherMarkerAt(name, i))
        => cleaned_name = name

(***************************************************************************)
(* C9  _clean_existing_versions never returns a degenerate name: when      *)
(* stripping, collapsing and trimming leave fewer than 2 characters the    *)
(* input is returned unchanged, so the result is the input or has at       *)
(* least 2 characters.                                                     *)
(***************************************************************************)
C9_Stripped(s) == strip_underscores(collapse_underscores(apply_patterns(s)))

C9_NotDegenerate ==
    calls >= 1 =>
        /\ Len(C9_Stripped(name)) < 2 => cleaned_name = name
        /\ cleaned_name = name \/ Len(cleaned_name) >= 2

C9_Witness ==
    /\ calls = 1
    /\ Len(C9_Stripped(name)) < 2
    /\ C9_Stripped(name) # name
    /\ Len(name) >= 2
    /\ cleaned_name = name

C11_NoDependencies(f) ==
    \/ f.file = "unreadable"
    \/ ~truthy(f.doc)
    \/ f.doc.t # "dict"
    \/ "dependencies" \notin DOMAIN f.doc.dv
    \/ f.doc.dv["dependencies"].t # "list"

\* neither a string nor a mapping with a list under 'pip'
C11_BadEntry(e) ==
    /\ e.t # "str"
    /\ ~(e.t = "dict" /\ "pip" \in DOMAIN e.dv /\ e.dv["pip"].t = "list")

C11_HasBadEntry(f) ==
    /\ ~C11_NoDependencies(f)
    /\ \E e \in Range(f.doc.dv["dependencies"].lv) : C11_BadEntry(e)

\* the same file without its bad entries
C11_WithoutBadEntries(f) ==
    [file |-> "ok",
     doc |-> PyDict([f.doc.dv EXCEPT !["dependencies"] =
                PyList(SelectSeq(f.doc.dv["dependencies"].lv,
                                 LAMBDA e : ~C11_BadEntry(e)))])]

\* C11 as claimed: any of the listed defects gives the empty mapping
C11_EmptyOnMalformed ==
    (pc = "extract_returned" /\ (C11_NoDependencies(yaml_file) \/ C11_HasBadEntry(yaml_file)))
        => (~raised /\ package_versions = EmptyDict)

\* C11 as amended: nothing is raised; a document without a list of
\* dependencies gives the empty mapping; a bad entry contributes nothing and
\* the other entries are recorded as if it were not there
C11_BadEntriesSkipped ==
    pc = "extract_returned" =>
        /\ ~raised
        /\ C11_NoDependencies(yaml_file) => package_versions = EmptyDict
        /\ ~C11_NoDependencies(yaml_file) =>
              package_versions =
                  extract_package_versions_from_yaml(
                      C11_WithoutBadEntries(yaml_file), old_name).ret

\* a manifest with a bad entry from which a version is recorded all the same
C11_Witness ==
    /\ pc = "extract_returned"
    /\ C11_HasBadEntry(yaml_file)
    /\ package_versions # EmptyDict

(***************************************************************************)
(* C12  Every manifest entry, conda-style or pip-style, whose package name *)
(* matches a candidate name case-insensitively, directly or after removing *)
(* a leading 'r-' or 'py-', is recorded, under the lower-cased name with   *)
(* that prefix removed.                                                    *)
(***************************************************************************)
\* the name and version of a conda-style entry, when it has both
C12_CondaEntry(dep) ==
    LET parts == split(dep, "=")
    IN  IF Len(parts) >= 2
        THEN << [name |-> strip(parts[1]), version |-> strip(parts[2])] >>
        ELSE << >>

\* the name and version of a pip-style entry, when it has both
C12_PipEntry(pip_dep) ==
    LET m == pip_match(pip_dep)
    IN  IF m.ok THEN << [name |-> strip(m.pkg_name), version |-> strip(m.version)] >>
        ELSE << >>

RECURSIVE C12_Flatten(_)
C12_Flatten(ll) == IF ll = <<>> THEN <<>> ELSE Head(ll) \o C12_Flatten(Tail(ll))

\* the named, versioned entries of a manifest in manifest order
C12_Entries(dependencies) ==
    C12_Flatten([j \in 1..Len(dependencies) |->
        IF dependencies[j].t = "str" THEN C12_CondaEntry(dependencies[j].sv)
        ELSE C12_Flatten([k \in 1..Len(pip_strs(dependencies[j])) |->
                IF pip_strs(dependencies[j])[k] = <<>> THEN <<>>
                ELSE C12_PipEntry(pip_strs(dependencies[j])[k][1])])])

\* the lower-cased name without a leading 'r-' or 'py-'
C12_Key(n) ==
    IF OccursAt(lower(n), 1, <<"r","-">>) THEN From(lower(n), 3)
    ELSE IF OccursAt(lower(n), 1, <<"p","y","-">>) THEN From(lower(n), 4)
    ELSE lower(n)

\* the name, or the name without its prefix, is a candidate
C12_Matches(n, candidates) ==
    \/ lower(n) \in {lower(p) : p \in candidates}
    \/ C12_Key(n) \in {lower(p) : p \in candidates}

C12_Manifest == yaml_file.doc.dv["dependencies"].lv

C12_Candidates == relevant_packages(C12_Manifest, lower(old_name))

C12_PrefixStripped ==
    (pc = "extract_returned" /\ ~C11_NoDependencies(yaml_file)) =>
        \A e \in Range(C12_Entries(C12_Manifest)) :
            C12_Matches(e.name, C12_Candidates) =>
                /\ C12_Key(e.name) \in DOMAIN package_versions
                /\ \E o \in Range(C12_Entries(C12_Manifest)) :
                      /\ C12_Key(o.name) = C12_Key(e.name)
                      /\ package_versions[C12_Key(e.name)] = o.version

(***************************************************************************)
(* C13  When several manifest entries map to the same result key (the same *)
(* lower-cased, prefix-stripped package name), the version recorded is the *)
(* one of the entry that comes last in manifest order.                     *)
(***************************************************************************)
\* the matching entries of the manifest that have key k, in manifest order
C13_EntriesOf(k) ==
    SelectSeq(C12_Entries(C12_Manifest),
              LAMBDA e : C12_Matches(e.name, C12_Candidates) /\ C12_Key(e.name) = k)

C13_LastWins ==
    (pc = "extract_returned" /\ ~C11_NoDependencies(yaml_file)) =>
        \A e \in Range(C12_Entries(C12_Manifest)) :
            LET same == C13_EntriesOf(C12_Key(e.name))
            IN  Len(same) >= 2 =>
                    /\ C12_Key(e.name) \in DOMAIN package_versions
                    /\ package_versions[C12_Key(e.name)] = same[Len(same)].version

(***************************************************************************)
(* C14  For a pre-release version (one that contains 'a', 'b', 'rc' or     *)
(* 'dev') made of a numeric dotted core followed by a tag of letters then  *)
(* optional digits, the package suffix is the package name, the first up   *)
(* to 3 components of the core without dots, and the tag verbatim; when    *)
(* such a version does not start with a numeric core the suffix is the     *)
(* version with only its dots removed.                                     *)
(***************************************************************************)
\* the call was made with one package, and its suffix was appended
C14_OnePackage ==
    /\ pc = "add_returned"
    /\ Cardinality(DOMAIN package_versions) = 1
    /\ new_name # cleaned_base

C14_Package == CHOOSE p \in DOMAIN package_versions : TRUE

C14_Version == package_versions[C14_Package]

\* what follows base_name and the '_' in the returned name
C14_Suffix == From(new_name, Len(cleaned_base) + 2)

C14_HasMarker(v) ==
    \E i \in 1..Len(v) :
        \/ v[i] \in {"a", "b"}
        \/ OccursAt(v, i, <<"r","c">>)
        \/ OccursAt(v, i, <<"d","e","v">>)

\* the length of the leading run of digits and dots
C14_CoreLen(v) == RunOf(v, 1, Digit \cup {"."})

\* v is a core followed by letters and then digits only
C14_CoreAndTag(v) ==
    LET n == C14_CoreLen(v)
        l == RunOf(v, n + 1, Letter)
    IN  n > 0 /\ l > 0 /\ n + l + RunOf(v, n + l + 1, Digit) = Len(v)

\* at most the first three dot-separated components, without the dots
C14_FirstThree(s) ==
    LET parts == split(s, ".")
    IN  join(<<>>, SubSeq(parts, 1, IF Len(parts) < 3 THEN Len(parts) ELSE 3))

C15_PlainNumeric ==
    (C14_OnePackage /\ ~C14_HasMarker(C14_Version)) =>
        LET part == From(C14_Suffix, Len(C14_Package) + 1)
        IN  /\ C14_Suffix = C14_Package \o part
            /\ part = SelectSeq(C14_FirstThree(C14_Version), LAMBDA c : c \in Digit)
            /\ \A i \in 1..Len(part) : part[i] \in Digit

\* '1.2.3.4' gives '123'
C15_Witness ==
    /\ C14_OnePackage
    /\ C14_Version = <<"1",".","2",".","3",".","4">>
    /\ new_name = <<"s","c","a","n","p","y","_","a","n","a","l","y","s","i","s","_","s","c","a","n","p","y","1","2","3">>

(***************************************************************************)
(* C16  Suffix formatting never raises on a malformed version string, and  *)
(* for a version that is empty or contains no digit at all the suffix is   *)
(* the package name followed by '0'.                                       *)
(***************************************************************************)
C16_WorstCaseZero ==
    (C14_OnePackage /\ \A i \in 1..Len(C14_Version) : C14_Version[i] \notin Digit) =>
        /\ ~raised
        /\ C14_Suffix = C14_Package \o <<"0">>

(***************************************************************************)
(* C17  _add_package_versions_to_name appends at most 2 package suffixes,  *)
(* and only packages among the first 2 entries of the mapping sorted by    *)
(* package name are considered: a third or later package is never          *)
(* appended, even when the first two are skipped.                          *)
(***************************************************************************)
\* the call was made with packages of the pool
C17_PoolCall ==
    /\ pc = "add_returned"
    /\ package_versions \in PackageDicts

\* the position of p among the sorted package names
C17_Rank(p) == 1 + Cardinality({o \in DOMAIN package_versions : str_less(o, p)})

\* the suffix of p: its name and the digits of its version
C17_Token(p) == <<"_">> \o p \o SelectSeq(package_versions[p], LAMBDA c : c # ".")

\* the suffix of p is part of what was appended to base_name
C17_Appended(p) == Contains(From(new_name, Len(cleaned_base) + 1), C17_Token(p))

C17_Underscores(s) == Len(SelectSeq(s, LAMBDA c : c = "_"))

C17_AtMostTwo ==
    C17_PoolCall =>
        /\ C17_Underscores(new_name) - C17_Underscores(cleaned_base) <= 2
        /\ \A p \in DOMAIN package_versions : C17_Rank(p) > 2 => ~C17_Appended(p)

\* the third package is named by base_name, the first two are not: nothing
\* is appended
C17_Witness ==
    /\ C17_PoolCall
    /\ cleaned_base = <<"s","c","a","n","p","y","_","a","n","a","l","y","s","i","s">>
    /\ DOMAIN package_versions = {<<"h","a","r","m","o","n","y","p","y">>, <<"n","u","m","p","y">>, <<"s","c","a","n","p","y">>}
    /\ new_name = cleaned_base

(***************************************************************************)
(* C18  The suffix of a considered package is appended if and only if one  *)
(* of these variations of its name, longer than 2 characters, is a         *)
(* case-insensitive substring of the base name: the bare name, the name    *)
(* with a trailing 'py' removed, the name with a leading 'r-' removed, the *)
(* first segment of the name split on '-'; no other transformation can     *)
(* cause a package to be appended.                                         *)
(***************************************************************************)
C18_EndsWith(s, lit) == Len(s) >= Len(lit) /\ OccursAt(s, Len(s) - Len(lit) + 1, lit)

\* the variations as claimed
C18_Claimed(p) ==
    LET n == lower(p)
    IN  { n,
          IF C18_EndsWith(n, <<"p","y">>) THEN SubSeq(n, 1, Len(n) - 2) ELSE n,
          IF OccursAt(n, 1, <<"r","-">>) THEN From(n, 3) ELSE n,
          SubSeq(n, 1, FirstOf(n, 1, {"-"}) - 1) }

\* the variations with 'py' and 'r-' removed wherever they occur
C18_Anywhere(p) ==
    LET n == lower(p)
    IN  { n,
          replace_empty(n, <<"p","y">>),
          replace_empty(n, <<"r","-">>),
          SubSeq(n, 1, FirstOf(n, 1, {"-"}) - 1) }

C18_Named(variations) ==
    \E w \in variations : Len(w) > 2 /\ Contains(lower(cleaned_base), w)

\* C18 as claimed
C18_AffixVariations ==
    C17_PoolCall =>
        \A p \in DOMAIN package_versions :
            C17_Rank(p) <= 2 => (C17_Appended(p) <=> C18_Named(C18_Claimed(p)))

\* C18 as amended: 'py' and 'r-' are removed wherever they occur in the name
C18_AnywhereVariations ==
    C17_PoolCall =>
        \A p \in DOMAIN package_versions :
            C17_Rank(p) <= 2 => (C17_Appended(p) <=> C18_Named(C18_Anywhere(p)))

\* 'pyscenic' is appended to a base name that holds only 'scenic'
C18_Witness ==
    /\ C17_PoolCall
    /\ cleaned_base = <<"s","c","e","n","i","c","_","x">>
    /\ <<"p","y","s","c","e","n","i","c">> \in DOMAIN package_versions
    /\ C17_Rank(<<"p","y","s","c","e","n","i","c">>) <= 2
    /\ C17_Appended(<<"p","y","s","c","e","n","i","c">>)

(***************************************************************************)
(* C19  generate_new_name('scanpy_analysis', '3.10', None, [], manifest    *)
(* with scanpy=1.9.1 and pandas=1.4.4) returns exactly                    *)
(* 'scanpy_analysis_scanpy191_py310': scanpy is kept, pandas is skipped.   *)
(***************************************************************************)
C19_Call ==
    /\ old_name = <<"s","c","a","n","p","y","_","a","n","a","l","y","s","i","s">>
    /\ python_version = SomeStr(<<"3",".","1","0">>)
    /\ r_version = NoStr
    /\ existing_names = <<>>
    /\ yaml_file = [file |-> "ok",
                    doc |-> Deps(PyList(<< PyStr(<<"s","c","a","n","p","y","=","1",".","9",".","1">>),
                                           PyStr(<<"p","a","n","d","a","s","=","1",".","4",".","4">>) >>))]

C20_Call ==
    /\ old_name = <<"h","a","r","m","o","n","y","_","i","n","t","e","g","r","a","t","i","o","n">>
    /\ python_version = SomeStr(<<"3",".","1","0">>)
    /\ r_version = NoStr
    /\ existing_names = <<>>
    /\ yaml_file = [file |-> "ok",
                    doc |-> Deps(PyList(<< PyStr(<<"s","c","a","n","p","y","=","1",".","8",".","0","=","p","y","_","0">>),
                                           PyStr(<<"p","a","n","d","a","s","=","1",".","4",".","4">>),
                                           Pip(PyList(<< PyStr(<<"h","a","r","m","o","n","y","p","y","=","=","0",".","0",".","9">>) >>)) >>))]

\* a token of the name that starts with 'harmony' and ends with '009'
C20_HarmonyToken(s) ==
    \E i \in 1..Len(s) :
        /\ OccursAt(s, i, <<"_","h","a","r","m","o","n","y">>)
        /\ LET e == FirstOf(s, i + 1, {"_"})
           IN  OccursAt(s, e - 3, <<"0","0","9">>)

C21_LowerCase ==
    pc = "done" => \A i \in 1..Len(new_name) : new_name[i] \notin Range(UpperCase)

(***************************************************************************)
(* C25  _clean_existing_versions removes every '_MAJOR.MINOR' dotted       *)
(* numeral token that is followed by '_' or by the end of the name,        *)
(* wherever it occurs: 'r_jjans_4.2_seurat' is cleaned to 'r_jjans_seurat' *)
(* and 'r_jjans_4.2_cistopic' to 'r_jjans_cistopic'.                       *)
(***************************************************************************)
\* a '_', digits, a '.', digits, then '_' or the end of s, starting at i
C25_TokenAt(s, i) ==
    /\ i <= Len(s)
    /\ s[i] = "_"
    /\ LET a == RunOf(s, i + 1, Digit)
           b == RunOf(s, i + a + 2, Digit)
           e == i + a + b + 2
       IN  /\ a > 0
           /\ i + a + 1 <= Len(s)
           /\ s[i + a + 1] = "."
           /\ b > 0
           /\ (e > Len(s) \/ s[e] = "_")

C25_HasToken(s) == \E i \in 1..Len(s) : C25_TokenAt(s, i)

\* C25 as claimed: no token is left, whatever the name
C25_EveryTokenRemoved ==
    calls = 1 =>
        /\ ~C25_HasToken(cleaned_name)
        /\ name = <<"r","_","j","j","a","n","s","_","4",".","2","_","s","e","u","r","a","t">> => cleaned_name = <<"r","_","j","j","a","n","s","_","s","e","u","r","a","t">>
        /\ name = <<"r","_","j","j","a","n","s","_","4",".","2","_","c","i","s","t","o","p","i","c">> => cleaned_name = <<"r","_","j","j","a","n","s","_","c","i","s","t","o","p","i","c">>

\* C25 as amended: no token is left unless the name is returned unchanged
\* because fewer than 2 characters would remain
C25_TokenRemovedOrUnchanged ==
    calls = 1 =>
        /\ C25_HasToken(cleaned_name) =>
              (cleaned_name = name /\ Len(C9_Stripped(name)) < 2)
        /\ name = <<"r","_","j","j","a","n","s","_","4",".","2","_","s","e","u","r","a","t">> => cleaned_name = <<"r","_","j","j","a","n","s","_","s","e","u","r","a","t">>
        /\ name = <<"r","_","j","j","a","n","s","_","4",".","2","_","c","i","s","t","o","p","i","c">> => cleaned_name = <<"r","_","j","j","a","n","s","_","c","i","s","t","o","p","i","c">>

\* an embedded token has been removed
C25_Witness ==
    /\ calls = 1
    /\ name = <<"r","_","j","j","a","n","s","_","4",".","2","_","c","i","s","t","o","p","i","c">>
    /\ C25_HasToken(name)
    /\ cleaned_name = <<"r","_","j","j","a","n","s","_","c","i","s","t","o","p","i","c">>

(***************************************************************************)
(* C26  For a pip-style manifest entry 'name OP version' with any version  *)
(* specifier operator OP (==, >=, <=, ~=, !=, <, >), the package name is   *)
(* the text before the operator and the version recorded is everything     *)
(* after the operator verbatim, including pre-release suffixes; it is      *)
(* never truncated to its numeric prefix.                                  *)
(***************************************************************************)
C26_Operators == <<<<"=","=">>, <<">","=">>, <<"<","=">>, <<"~","=">>, <<"!","=">>, <<"<">>, <<">">>>>

\* the length of the operator that starts at position i of s, 0 when none does
C26_OperatorAt(s, i) ==
    IF \E k \in 1..5 : OccursAt(s, i, C26_Operators[k]) THEN 2
    ELSE IF \E k \in 6..7 : OccursAt(s, i, C26_Operators[k]) THEN 1
    ELSE 0

\* name and version of an entry 'name OP version'
C26_Parse(pip_dep) ==
    LET at == {i \in 1..Len(pip_dep) : C26_OperatorAt(pip_dep, i) > 0}
    IN  IF at = {} THEN << >>
        ELSE LET i == CHOOSE x \in at : \A y \in at : x <= y
                 e == [name |-> strip(SubSeq(pip_dep, 1, i - 1)),
                       version |-> strip(From(pip_dep, i + C26_OperatorAt(pip_dep, i)))]
             IN  IF e.name # <<>> /\ e.version # <<>> THEN << e >> ELSE << >>

\* the pip-style entries of a manifest
C26_PipEntries(dependencies) ==
    C12_Flatten([j \in 1..Len(dependencies) |->
        C12_Flatten([k \in 1..Len(pip_strs(dependencies[j])) |->
            IF pip_strs(dependencies[j])[k] = <<>> THEN <<>>
            ELSE C26_Parse(pip_strs(dependencies[j])[k][1])])])

\* a manifest whose only entry is a pip group
C26_OnlyPip(f) ==
    /\ ~C11_NoDependencies(f)
    /\ Len(f.doc.dv["dependencies"].lv) = 1
    /\ f.doc.dv["dependencies"].lv[1].t = "dict"

C26_VerbatimVersion ==
    (pc = "extract_returned" /\ C26_OnlyPip(yaml_file)) =>
        LET entries == C26_PipEntries(C12_Manifest)
        IN  \A k \in 1..Len(entries) :
                (/\ lower(entries[k].name) \in {lower(p) : p \in C12_Candidates}
                 /\ \A j \in (k + 1)..Len(entries) :
                        lower(entries[j].name) # lower(entries[k].name))
                => /\ lower(entries[k].name) \in DOMAIN package_versions
                   /\ package_versions[lower(entries[k].name)] = entries[k].version

(***************************************************************************)
(* _is_environment_empty                                                   *)
(*                                                                         *)
(* The outcome of a call is [raised, ret]: raised when an exception left   *)
(* the method (it has no try block), ret the returned bool otherwise.      *)
(***************************************************************************)
base_packages ==
    {<<"p","y","t","h","o","n">>, <<"_","l","i","b","g","c","c","_","m","u","t","e","x">>, <<"_","o","p","e","n","m","p","_","m","u","t","e","x">>, <<"l","i","b","g","c","c","-","n","g">>, <<"l","i","b","g","o","m","p">>,
     <<"l","i","b","s","t","d","c","x","x","-","n","g">>}

\* s.split(): the whitespace-separated words of s
RECURSIVE words(_)
words(s) ==
    LET skip == RunOf(s, 1, Whitespace)
        len == RunNotOf(s, skip + 1, Whitespace)
    IN  IF len = 0 THEN <<>>
        ELSE <<SubSeq(s, skip + 1, skip + len)>> \o words(From(s, skip + len + 1))

\* dep.split('=')[0].split(): indexing it with [0] raises IndexError when empty
name_words(dep) == words(before_first(dep, {"="}))

\* variant: the package name is compared as written, without .lower()
dep_is_meaningful_cased(dep) == name_words(dep)[1] \notin base_packages

\* package_name not in base_packages
dep_is_meaningful(dep) == lower(name_words(dep)[1]) \notin base_packages

\* the entries a dependencies value yields when iterated: a list its items,
\* a str its characters, a dict its keys (no key of the model is blank or a
\* base package, so a key counts as one str that names a package)
iterated(dependencies) ==
    CASE dependencies.t = "list" -> dependencies.lv
      [] dependencies.t = "str"  ->
            [i \in 1..Len(dependencies.sv) |-> PyStr(<<dependencies.sv[i]>>)]
      [] dependencies.t = "dict" ->
            [i \in 1..Cardinality(DOMAIN dependencies.dv) |-> PyStr(<<"k","e","y">>)]
      [] OTHER -> <<>>

\* dep is a dict with a 'pip' key
is_pip_group(dep) == dep.t = "dict" /\ "pip" \in DOMAIN dep.dv

\* the loop body raises on dep: [0] of an empty split(), or extend() of a
\* truthy value that cannot be iterated
entry_raises(dep) ==
    \/ dep.t = "str" /\ name_words(dep.sv) = <<>>
    \/ is_pip_group(dep) /\ dep.dv["pip"].t = "int" /\ truthy(dep.dv["pip"])

\* the loop body adds something to meaningful_packages
entry_is_meaningful(dep) ==
    \/ dep.t = "str" /\ name_words(dep.sv) # <<>> /\ dep_is_meaningful(dep.sv)
    \/ is_pip_group(dep) /\ truthy(dep.dv["pip"])

is_environment_empty(data) ==
    LET dependencies == IF "dependencies" \in DOMAIN data.dv
                        THEN data.dv["dependencies"] ELSE PyList(<<>>)
        deps == iterated(dependencies)
    IN  IF ~truthy(dependencies) THEN [raised |-> FALSE, ret |-> TRUE]
        ELSE IF dependencies.t = "int" \/ \E i \in 1..Len(deps) : entry_raises(deps[i])
        THEN [raised |-> TRUE, ret |-> FALSE]
        ELSE [raised |-> FALSE,
              ret |-> ~\E i \in 1..Len(deps) : entry_is_meaningful(deps[i])]

(***************************************************************************)
(* Specification of _is_environment_empty called on its own, as            *)
(* test_yaml_empty_detection calls it.  The documents are the shapes an    *)
(* environment export has: a mapping whose dependencies are absent, null   *)
(* or a list of package strings and pip groups.                            *)
(***************************************************************************)
MaxDeps == 3

DepPool ==
    { PyStr(<<"p","y","t","h","o","n","=","3",".","9",".","0">>), PyStr(<<"_","l","i","b","g","c","c","_","m","u","t","e","x","=","0",".","1">>), PyStr(<<"l","i","b","g","c","c","-","n","g","=","1","1",".","2",".","0">>),
      PyStr(<<"l","i","b","g","o","m","p">>), PyStr(<<"P","y","t","h","o","n","=","3",".","9">>), PyStr(<<" ","p","y","t","h","o","n"," ","3",".","9">>),
      PyStr(<<"p","y","t","h","o","n","-","d","a","t","e","u","t","i","l","=","2",".","8",".","2">>), PyStr(<<"l","i","b","g","c","c","=","1",".","0">>),
      PyStr(<<"n","u","m","p","y","=","1",".","2","1",".","0">>), PyStr(<<"p","a","n","d","a","s","=","1",".","3",".","0">>),
      Pip(PyList(<<>>)), Pip(PyNone),
      Pip(PyList(<< PyStr(<<"r","e","q","u","e","s","t","s","=","=","2",".","2","5",".","1">>), PyStr(<<"f","l","a","s","k","=","=","2",".","0",".","1">>) >>)),
      Pip(PyList(<< PyStr(<<"p","y","t","h","o","n">>) >>)),
      PyDict([k \in {"conda"} |-> PyList(<< PyStr(<<"n","u","m","p","y">>) >>)]) }

DepLists == UNION {[1..n -> DepPool] : n \in 0..MaxDeps}

ExportDocs ==
    {PyDict([k \in {"name"} |-> PyStr(<<"t","e","s","t","_","e","n","v">>)]), Deps(PyNone)}
    \cup {Deps(PyList(l)) : l \in DepLists}

InitEmpty ==
    /\ yaml_data \in ExportDocs
    /\ empty_result = [raised |-> FALSE, ret |-> FALSE]
    /\ step = "call_empty"
    /\ environments = <<>>
    /\ installed = <<>>
    /\ index = 0
    /\ exported = [kind |-> "None", doc |-> PyNone]
    /\ target_name = <<>>
    /\ commands = <<>>
    /\ results = <<>>
    /\ successful = 0
    /\ failed = 0
    /\ PreviewIdle
    /\ AnalyzerIdle
    /\ NameIdle
    /\ CleanIdle

\* self._is_environment_empty(yaml_data)
CallEmpty ==
    /\ step = "call_empty"
    /\ empty_result' = is_environment_empty(yaml_data)
    /\ step' = "empty_returned"
    /\ UNCHANGED <<yaml_data, environments, installed, index, exported, target_name,
                   commands, results, successful, failed>>
    /\ UNCHANGED <<previewVars, analyzerVars, cleanVars, nameVars>>

NextEmpty == CallEmpty

SpecEmpty == InitEmpty /\ [][NextEmpty]_vars

(***************************************************************************)
(* C23                                                                     *)
(***************************************************************************)
\* the package a dependency string names: the text before the version,
\* which '=' or white space separates from it; names compare without case
C23_PackageName(dep) ==
    LET t == strip(dep)
    IN  lower(SubSeq(t, 1, FirstOf(t, 1, {"="} \cup Whitespace) - 1))

C23_Dependencies ==
    IF "dependencies" \in DOMAIN yaml_data.dv /\ yaml_data.dv["dependencies"].t = "list"
    THEN yaml_data.dv["dependencies"].lv ELSE <<>>

C23_OnlyBasePackages ==
    \A i \in 1..Len(C23_Dependencies) :
        LET dep == C23_Dependencies[i]
        IN  /\ dep.t = "str" => C23_PackageName(dep.sv) \in base_packages
            /\ (dep.t = "dict" /\ "pip" \in DOMAIN dep.dv) =>
                  (dep.dv["pip"].t = "None" \/ dep.dv["pip"] = PyList(<<>>))

RECURSIVE rstrip_slashes(_)
rstrip_slashes(s) ==
    IF s # <<>> /\ s[Len(s)] = "/" THEN rstrip_slashes(SubSeq(s, 1, Len(s) - 1)) ELSE s

\* p.rfind('/') + 1, counted in characters
after_last_slash(p) ==
    LET slashes == {i \in 1..Len(p) : p[i] = "/"}
    IN  IF slashes = {} THEN 0 ELSE CHOOSE i \in slashes : \A j \in slashes : j <= i

\* os.path.basename(p)
basename(p) == From(p, after_last_slash(p) + 1)

\* os.path.dirname(p): the head keeps its slashes only when it is all slashes
dirname(p) ==
    LET head == SubSeq(p, 1, after_last_slash(p))
    IN  IF rstrip_slashes(head) = <<>> THEN head ELSE rstrip_slashes(head)

\* variant: only the name 'base' marks a base environment
is_base_environment_by_name(env_path, env_name) == env_name = <<"b","a","s","e">>

is_base_environment(env_path, env_name) ==
    \/ env_name = <<"b","a","s","e">>
    \/ env_name = basename(dirname(env_path))
    \/ ~Contains(env_path, <<"e","n","v","s">>)

(***************************************************************************)
(* process_environment inside the loop of _process_all_environments        *)
(*                                                                         *)
(* The external commands are the environment of the program: a create or   *)
(* remove command changes the installation exactly when it exits with 0,   *)
(* and each command may fail.  exported is [kind, doc] with kind "None",   *)
(* "EMPTY" or "Path".                                                      *)
(***************************************************************************)
env_info == environments[index]

\* [env['name'].lower() for env in all_environments]
lower_names(envs) == [i \in 1..Len(envs) |-> lower(envs[i].name)]

\* the entry appended to the log of commands
Command(op, env, ok) == [call |-> index, op |-> op, env |-> env, ok |-> ok]

\* the call returns value at this step
Finish(value) ==
    /\ results' = Append(results, value)
    /\ step' = "returned"

\* the outcome of export_environment once its export command has succeeded
export_outcome(doc) ==
    LET e == is_environment_empty(doc)
    IN  IF e.raised THEN [kind |-> "None", doc |-> PyNone]
        ELSE IF e.ret THEN [kind |-> "EMPTY", doc |-> PyNone]
        ELSE [kind |-> "Path", doc |-> doc]

\* variant: the removal of the old environment does not wait for verification
step_after_create_unverified == "remove"

\* where the call goes once the new environment is created
step_after_create == "verify"

\* return value once the removal of the old environment was attempted
result_after_removal(ok) == TRUE

\* self.export_environment(env_name) of the current environment, given
\* whether its export command succeeds; list_environments leaves out 'base',
\* so that name is never found
export_environment(command_ok) ==
    IF env_info.name \in DOMAIN installed /\ env_info.name # <<"b","a","s","e">> /\ command_ok
    THEN export_outcome(installed[env_info.name])
    ELSE [kind |-> "None", doc |-> PyNone]

\* yaml_file = self.export_environment(env_name); if not yaml_file: return False
Export ==
    /\ step = "export"
    /\ \E command_ok \in BOOLEAN :
          /\ exported' = export_environment(command_ok)
          /\ IF exported'.kind = "None" THEN Finish(FALSE)
             ELSE /\ step' = IF exported'.kind = "EMPTY" THEN "empty" ELSE "generate"
                  /\ UNCHANGED results
    /\ UNCHANGED <<environments, installed, index, target_name, commands,
                   successful, failed>>
    /\ UNCHANGED <<emptyVars, previewVars, analyzerVars, cleanVars, nameVars>>

\* yaml_file == "EMPTY" and the environment is a base environment: return True
SkipBase ==
    /\ step = "empty"
    /\ is_base_environment(env_info.path, env_info.name)
    /\ Finish(TRUE)
    /\ UNCHANGED <<environments, installed, index, exported, target_name, commands,
                   successful, failed>>
    /\ UNCHANGED <<emptyVars, previewVars, analyzerVars, cleanVars, nameVars>>

\* yaml_file == "EMPTY" otherwise: the removal command decides the result
RemoveEmpty ==
    /\ step = "empty"
    /\ ~is_base_environment(env_info.path, env_info.name)
    /\ \E ok \in BOOLEAN :
          /\ commands' = Append(commands, Command("remove_empty", env_info.name, ok))
          /\ installed' = IF ok THEN [n \in DOMAIN installed \ {env_info.name} |-> installed[n]]
                          ELSE installed
          /\ Finish(ok)
    /\ UNCHANGED <<environments, index, exported, target_name, successful, failed>>
    /\ UNCHANGED <<emptyVars, previewVars, analyzerVars, cleanVars, nameVars>>

\* new_name = self.generate_new_name(env_name, python_version, r_version,
\*                                   existing_names, yaml_file)
GenerateName ==
    /\ step = "generate"
    /\ target_name' = generate_new_name(env_info.name, env_info.python_version,
                                        env_info.r_version, lower_names(environments),
                                        [file |-> "ok", doc |-> exported.doc])
    /\ step' = "create"
    /\ UNCHANGED <<environments, installed, index, exported, commands, results,
                   successful, failed>>
    /\ UNCHANGED <<emptyVars, previewVars, analyzerVars, cleanVars, nameVars>>

\* if not self.create_environment_from_yaml(yaml_file, new_name): return False
Create ==
    /\ step = "create"
    /\ \E ok \in BOOLEAN :
          /\ commands' = Append(commands, Command("create", target_name, ok))
          /\ installed' = IF ok
                          THEN [n \in DOMAIN installed \cup {target_name} |->
                                  IF n = target_name THEN exported.doc ELSE installed[n]]
                          ELSE installed
          /\ IF ok THEN step' = step_after_create /\ UNCHANGED results ELSE Finish(FALSE)
    /\ UNCHANGED <<environments, index, exported, target_name, successful, failed>>
    /\ UNCHANGED <<emptyVars, previewVars, analyzerVars, cleanVars, nameVars>>

\* if not self.verify_environment(new_name): return False
\* verification finds the environment when its name occurs in a listed path
Verify ==
    /\ step = "verify"
    /\ \E ok \in BOOLEAN :
          /\ ok => \E n \in DOMAIN installed : Contains(n, target_name)
          /\ commands' = Append(commands, Command("verify", target_name, ok))
          /\ IF ok THEN step' = "remove" /\ UNCHANGED results ELSE Finish(FALSE)
    /\ UNCHANGED <<environments, installed, index, exported, target_name,
                   successful, failed>>
    /\ UNCHANGED <<emptyVars, previewVars, analyzerVars, cleanVars, nameVars>>

\* if not self.remove_environment(env_name): only a warning; return True
RemoveOld ==
    /\ step = "remove"
    /\ \E ok \in BOOLEAN :
          /\ commands' = Append(commands, Command("remove", env_info.name, ok))
          /\ installed' = IF ok THEN [n \in DOMAIN installed \ {env_info.name} |-> installed[n]]
                          ELSE installed
          /\ Finish(result_after_removal(ok))
    /\ UNCHANGED <<environments, index, exported, target_name, successful, failed>>
    /\ UNCHANGED <<emptyVars, previewVars, analyzerVars, cleanVars, nameVars>>

\* the loop of _process_all_environments counts the result and goes on
Count ==
    /\ step = "returned"
    /\ IF results[Len(results)]
       THEN successful' = successful + 1 /\ UNCHANGED failed
       ELSE failed' = failed + 1 /\ UNCHANGED successful
    /\ IF index < Len(environments)
       THEN index' = index + 1 /\ step' = "export"
       ELSE UNCHANGED index /\ step' = "summary"
    /\ exported' = [kind |-> "None", doc |-> PyNone]
    /\ UNCHANGED <<environments, installed, target_name, commands, results>>
    /\ UNCHANGED <<emptyVars, previewVars, analyzerVars, cleanVars, nameVars>>

MaxBatch == 2

\* environments as list_environments reports them; an empty path stands for
\* an env_info without 'path'
EnvPool ==
    { [name |-> <<"p","r","o","j","_","p","y","3","8">>, path |-> <<"/","o","p","t","/","c","o","n","d","a","/","e","n","v","s","/","p","r","o","j","_","p","y","3","8">>,
       python_version |-> SomeStr(<<"3",".","1","0">>), r_version |-> NoStr],
      [name |-> <<"p","r","o","j","_","p","y","3","9">>, path |-> <<"/","o","p","t","/","c","o","n","d","a","/","e","n","v","s","/","p","r","o","j","_","p","y","3","9">>,
       python_version |-> SomeStr(<<"3",".","1","0">>), r_version |-> NoStr],
      [name |-> <<"s","c","a","n","p","y","_","a","n","a","l","y","s","i","s">>, path |-> <<"/","o","p","t","/","c","o","n","d","a","/","e","n","v","s","/","s","c","a","n","p","y","_","a","n","a","l","y","s","i","s">>,
       python_version |-> SomeStr(<<"3",".","9">>), r_version |-> NoStr],
      [name |-> <<"t","e","s","t","_","e","n","v","_","p","y","3","1","0">>, path |-> <<"/","o","p","t","/","c","o","n","d","a","/","e","n","v","s","/","t","e","s","t","_","e","n","v","_","p","y","3","1","0">>,
       python_version |-> SomeStr(<<"3",".","1","0">>), r_version |-> NoStr],
      [name |-> <<"T","e","s","t","_","E","n","v">>, path |-> <<"/","h","o","m","e","/","u","/","m","y","e","n","v","s","/","T","e","s","t","_","E","n","v">>,
       python_version |-> NoStr, r_version |-> SomeStr(<<"4",".","2",".","0">>)],
      [name |-> <<"a","n","a","c","o","n","d","a","3">>, path |-> <<"/","o","p","t","/","a","n","a","c","o","n","d","a","3">>,
       python_version |-> SomeStr(<<"3",".","9">>), r_version |-> NoStr],
      [name |-> <<"m","i","n","i","c","o","n","d","a","3">>, path |-> <<"/","o","p","t","/","e","n","v","s","/","m","i","n","i","c","o","n","d","a","3","/","m","i","n","i","c","o","n","d","a","3">>,
       python_version |-> SomeStr(<<"3",".","1","0">>), r_version |-> NoStr],
      [name |-> <<"b","a","s","e">>, path |-> <<"/","o","p","t","/","c","o","n","d","a","/","e","n","v","s","/","b","a","s","e">>,
       python_version |-> SomeStr(<<"3",".","1","0">>), r_version |-> NoStr],
      [name |-> <<"n","o","p","a","t","h">>, path |-> <<>>,
       python_version |-> NoStr, r_version |-> NoStr] }

\* what the environments hold: base packages only, or packages as well
ContentPool ==
    { Deps(PyList(<< PyStr(<<"p","y","t","h","o","n","=","3",".","1","0",".","4">>), PyStr(<<"l","i","b","g","c","c","-","n","g","=","1","1",".","2",".","0">>) >>)),
      Deps(PyList(<< PyStr(<<"p","y","t","h","o","n","=","3",".","9",".","1","2">>), PyStr(<<"s","c","a","n","p","y","=","1",".","9",".","1">>),
                     Pip(PyList(<< PyStr(<<"h","a","r","m","o","n","y","p","y","=","=","0",".","0",".","9">>) >>)) >>)) }

\* lists of environments with distinct names
EnvLists ==
    {l \in UNION {[1..n -> EnvPool] : n \in 1..MaxBatch} :
        \A i, j \in 1..Len(l) : i # j => l[i].name # l[j].name}

InitBatch ==
    /\ environments \in EnvLists
    /\ installed \in [{environments[i].name : i \in 1..Len(environments)} -> ContentPool]
    /\ index = 1
    /\ step = "export"
    /\ exported = [kind |-> "None", doc |-> PyNone]
    /\ target_name = <<>>
    /\ commands = <<>>
    /\ results = <<>>
    /\ successful = 0
    /\ failed = 0
    /\ EmptyIdle
    /\ PreviewIdle
    /\ AnalyzerIdle
    /\ NameIdle
    /\ CleanIdle

NextBatch ==
    \/ Export
    \/ SkipBase
    \/ RemoveEmpty
    \/ GenerateName
    \/ Create
    \/ Verify
    \/ RemoveOld
    \/ Count

SpecBatch == InitBatch /\ [][NextBatch]_vars

(***************************************************************************)
(* C22                                                                     *)
(***************************************************************************)
\* the current call issued the command op and it succeeded
C22_Succeeded(op) ==
    \E k \in 1..Len(commands) :
        commands[k].call = index /\ commands[k].op = op /\ commands[k].ok

\* C22: a call for a non-empty environment returns True if and only if
\* export, creation, verification and removal of the old environment all
\* succeeded.
C22_TrueIffAllSteps ==
    (step = "returned" /\ exported.kind # "EMPTY") =>
        (results[Len(results)] <=>
            /\ exported.kind = "Path"
            /\ C22_Succeeded("create")
            /\ C22_Succeeded("verify")
            /\ C22_Succeeded("remove"))

(***************************************************************************)
(* C24                                                                     *)
(***************************************************************************)
C24_RemovalsOfCall ==
    {k \in 1..Len(commands) : commands[k].call = index /\ commands[k].op = "remove_empty"}

C24_IsBase ==
    \/ env_info.name = <<"b","a","s","e">>
    \/ env_info.name = basename(dirname(env_info.path))
    \/ ~Contains(env_info.path, <<"e","n","v","s">>)

C28_After(k, op) ==
    \E j \in 1..(k - 1) :
        commands[j].call = commands[k].call /\ commands[j].op = op /\ commands[j].ok

C28_Failed(op) ==
    \E k \in 1..Len(commands) :
        commands[k].call = index /\ commands[k].op = op /\ ~commands[k].ok

\* C28: the old environment's removal is issued only after the new one was
\* created and verified; when export, creation or verification fails the
\* call issues no removal and returns False.
C28_RemovalLast ==
    /\ \A k \in 1..Len(commands) :
          commands[k].op = "remove" =>
              /\ C28_After(k, "create")
              /\ \E j \in 1..(k - 1) :
                    /\ commands[j].call = commands[k].call
                    /\ commands[j].op = "verify"
                    /\ commands[j].ok
                    /\ C28_After(j, "create")
    /\ (/\ step = "returned"
        /\ exported.kind # "EMPTY"
        /\ exported.kind = "None" \/ C28_Failed("create") \/ C28_Failed("verify")) =>
           /\ ~results[Len(results)]
           /\ \A k \in 1..Len(commands) :
                 commands[k].call = index => commands[k].op # "remove"
           /\ env_info.name \in DOMAIN installed

C28_Witness ==
    /\ step = "returned"
    /\ Len(commands) = 5
    /\ commands[1].op = "create" /\ commands[1].ok
    /\ commands[2].op = "verify" /\ commands[2].ok
    /\ commands[3].op = "remove" /\ commands[3].ok
    /\ commands[4].op = "create" /\ commands[4].ok
    /\ commands[5].op = "verify" /\ ~commands[5].ok
    /\ results = <<TRUE, FALSE>>

(***************************************************************************)
(* C29                                                                     *)
(***************************************************************************)
\* C29: in one batch over environments with distinct names, two different
\* environments never get the same new name, so no environment is created
\* under a name the batch has already assigned.
C29_DistinctNewNames ==
    \A j, k \in 1..Len(commands) :
        (/\ commands[j].op = "create"
         /\ commands[k].op = "create"
         /\ commands[j].call # commands[k].call) => commands[j].env # commands[k].env

(***************************************************************************)
(* _preview_changes: one iteration of its loop per step                    *)
(***************************************************************************)
\* name.split('_')[-1]
last_segment(s) == LET parts == split(s, "_") IN parts[Len(parts)]

\* the line printed for env once new_name is known; exported_result is
\* [kind, doc]
preview_report(env, new, exported_result) ==
    IF exported_result.kind = "EMPTY"
    THEN [env |-> env.name, line |-> "EMPTY - will be removed", new_name |-> <<>>,
          conflict |-> FALSE]
    ELSE IF new = lower(env.name)
    THEN [env |-> env.name, line |-> "No change needed", new_name |-> new,
          conflict |-> FALSE]
    ELSE [env |-> env.name, line |-> "Will rename to", new_name |-> new,
          conflict |-> Contains(last_segment(new), <<"_","v">>)]

\* one iteration of the loop: temp_yaml is the export when it is a Path
preview_line(env, existing, exported_result) ==
    preview_report(env,
                   generate_new_name(env.name, env.python_version, env.r_version, existing,
                                     IF exported_result.kind = "Path"
                                     THEN [file |-> "ok", doc |-> exported_result.doc]
                                     ELSE [file |-> "none", doc |-> PyNone]),
                   exported_result)

\* the line is printed and counted
Reported(l) ==
    /\ report' = Append(report, l)
    /\ unchanged' = IF l.line = "No change needed" THEN unchanged + 1 ELSE unchanged
    /\ renamed' = IF l.line = "Will rename to" THEN renamed + 1 ELSE renamed
    /\ conflicts' = IF l.conflict THEN conflicts + 1 ELSE conflicts

PreviewEnvironment ==
    /\ step = "preview"
    /\ \E command_ok \in BOOLEAN :
          /\ exported' = export_environment(command_ok)
          /\ Reported(preview_line(env_info, lower_names(environments), exported'))
    /\ IF index < Len(environments)
       THEN index' = index + 1 /\ UNCHANGED step
       ELSE UNCHANGED index /\ step' = "summary"
    /\ UNCHANGED <<environments, installed, target_name, commands, results,
                   successful, failed>>
    /\ UNCHANGED <<emptyVars, analyzerVars, cleanVars, nameVars>>

InitPreview ==
    /\ environments \in EnvLists
    /\ installed \in [{environments[i].name : i \in 1..Len(environments)} -> ContentPool]
    /\ index = 1
    /\ step = "preview"
    /\ exported = [kind |-> "None", doc |-> PyNone]
    /\ target_name = <<>>
    /\ commands = <<>>
    /\ results = <<>>
    /\ successful = 0
    /\ failed = 0
    /\ PreviewIdle
    /\ EmptyIdle
    /\ AnalyzerIdle
    /\ NameIdle
    /\ CleanIdle

NextPreview == PreviewEnvironment

SpecPreview == InitPreview /\ [][NextPreview]_vars

(***************************************************************************)
(* C27                                                                     *)
(***************************************************************************)
\* the environment of report line k
C27_Env(k) == environments[k]

\* its name is its cleaned base followed by the suffixes of its versions
C27_Canonical(k) ==
    LET env == C27_Env(k)
        py == IF env.python_version.some /\ env.python_version.s # <<>>
              THEN py_suffix(env.python_version.s) ELSE <<>>
        r == IF env.r_version.some /\ env.r_version.s # <<>>
             THEN r_suffix(env.r_version.s) ELSE <<>>
    IN  lower(env.name) = clean_existing_versions(lower(env.name)) \o py \o r

\* C27: an environment whose name is already canonical is reported as
\* 'No change needed' and counted as unchanged, never as 'Will rename to'.
C27_CanonicalUnchanged ==
    /\ \A k \in 1..Len(report) :
          (C27_Canonical(k) /\ report[k].line # "EMPTY - will be removed") =>
              report[k].line = "No change needed"
    /\ unchanged = Cardinality({k \in 1..Len(report) : report[k].line = "No change needed"})

(***************************************************************************)
(* YAMLAnalyzer: analyze_yaml_files and cleanup_duplicates                 *)
(*                                                                         *)
(* A file is [content, mtime]; content is the value yaml.safe_load gives,  *)
(* or [t |-> "invalid", text |-> n] for a file that cannot be read or      *)
(* parsed, n telling such texts apart.  md5 is taken as collision free, so *)
(* a content hash is modelled by what is hashed: 'error', or the items of  *)
(* the mapping without 'name'.                                             *)
(***************************************************************************)
Invalid(n) == [t |-> "invalid", text |-> n]

\* info['content_hash'] of _analyze_single_file: an exception (open or
\* safe_load fails, .copy() of a str or int, .items() of a list) gives 'error'
content_hash(content) ==
    IF content.t = "invalid" THEN [error |-> TRUE, hashed |-> PyNone]
    ELSE IF ~truthy(content) THEN [error |-> FALSE, hashed |-> PyDict(<<>>)]
    ELSE IF content.t = "dict"
    THEN [error |-> FALSE,
          hashed |-> PyDict([k \in DOMAIN content.dv \ {"name"} |-> content.dv[k]])]
    ELSE [error |-> TRUE, hashed |-> PyNone]

\* content_hashes: the files of each hash, as sets of positions in the list
hash_groups(files) ==
    {{i \in 1..Len(files) : content_hash(files[i].content) = content_hash(files[j].content)} :
        j \in 1..Len(files)}

\* analysis['duplicates']
duplicates(files) == {g \in hash_groups(files) : Cardinality(g) > 1}

\* sorted(duplicate_group, key=modified_time, reverse=True)[0]: the sort is
\* stable, so of several newest files the first of the list is kept
keep_newest(files, group) ==
    CHOOSE i \in group :
        \A j \in group : \/ files[j].mtime < files[i].mtime
                         \/ files[j].mtime = files[i].mtime /\ i <= j

\* sorted(duplicate_group, key=modified_time)[0]
keep_oldest(files, group) ==
    CHOOSE i \in group :
        \A j \in group : \/ files[j].mtime > files[i].mtime
                         \/ files[j].mtime = files[i].mtime /\ i <= j

MaxFiles == 3

MaxTime == 2

ContentsPool ==
    { Invalid(1), Invalid(2), PyNone, PyStr(<<"s","c","a","n","p","y">>),
      PyList(<< PyStr(<<"s","c","a","n","p","y","=","1",".","9",".","1">>) >>), PyList(<< PyStr(<<"n","u","m","p","y","=","1",".","2","1",".","5">>) >>),
      PyDict([k \in {"name", "dependencies"} |->
                IF k = "name" THEN PyStr(<<"e","n","v","_","a">>)
                ELSE PyList(<< PyStr(<<"s","c","a","n","p","y","=","1",".","9",".","1">>) >>)]),
      PyDict([k \in {"name", "dependencies"} |->
                IF k = "name" THEN PyStr(<<"e","n","v","_","b">>)
                ELSE PyList(<< PyStr(<<"s","c","a","n","p","y","=","1",".","9",".","1">>) >>)]),
      PyDict([k \in {"name", "dependencies"} |->
                IF k = "name" THEN PyStr(<<"e","n","v","_","a">>)
                ELSE PyList(<< PyStr(<<"n","u","m","p","y","=","1",".","2","1",".","5">>) >>)]) }

FilePool == [content : ContentsPool, mtime : 1..MaxTime]

InitAnalyzer ==
    /\ yaml_files \in UNION {[1..n -> FilePool] : n \in 1..MaxFiles}
    /\ analysis = <<>>
    /\ deleted = {}
    /\ step = "analyze"
    /\ environments = <<>>
    /\ installed = <<>>
    /\ index = 0
    /\ exported = [kind |-> "None", doc |-> PyNone]
    /\ target_name = <<>>
    /\ commands = <<>>
    /\ results = <<>>
    /\ successful = 0
    /\ failed = 0
    /\ EmptyIdle
    /\ PreviewIdle
    /\ NameIdle
    /\ CleanIdle

\* analysis = self.analyze_yaml_files()
Analyze ==
    /\ step = "analyze"
    /\ analysis' = [file_info |-> [i \in 1..Len(yaml_files) |->
                                     [content_hash |-> content_hash(yaml_files[i].content),
                                      modified_time |-> yaml_files[i].mtime]],
                    duplicates |-> duplicates(yaml_files)]
    /\ step' = "analyzed"
    /\ UNCHANGED <<yaml_files, deleted, environments, installed, index, exported,
                   target_name, commands, results, successful, failed>>
    /\ UNCHANGED <<emptyVars, previewVars, cleanVars, nameVars>>

\* self.cleanup_duplicates(analysis, strategy); under "interactive" the
\* user names the file to keep in each group
CleanupDuplicates ==
    /\ step = "analyzed"
    /\ \E strategy \in {"keep_newest", "keep_oldest", "interactive"} :
       \E choice \in [analysis.duplicates -> 1..Len(yaml_files)] :
          /\ \A g \in analysis.duplicates : choice[g] \in g
          /\ strategy # "interactive" =>
                \A g \in analysis.duplicates :
                    choice[g] = IF strategy = "keep_newest" THEN keep_newest(yaml_files, g)
                                ELSE keep_oldest(yaml_files, g)
          /\ deleted' = UNION {g \ {choice[g]} : g \in analysis.duplicates}
    /\ step' = "cleaned"
    /\ UNCHANGED <<yaml_files, analysis, environments, installed, index, exported,
                   target_name, commands, results, successful, failed>>
    /\ UNCHANGED <<emptyVars, previewVars, cleanVars, nameVars>>

NextAnalyzer ==
    \/ Analyze
    \/ CleanupDuplicates

SpecAnalyzer == InitAnalyzer /\ [][NextAnalyzer]_vars

(***************************************************************************)
(* C30                                                                     *)
(***************************************************************************)
\* the parsed contents of two files are equal once 'name' is ignored
C30_SameContent(a, b) ==
    IF a.t = "dict" /\ b.t = "dict"
    THEN /\ DOMAIN a.dv \ {"name"} = DOMAIN b.dv \ {"name"}
         /\ \A k \in DOMAIN a.dv \ {"name"} : a.dv[k] = b.dv[k]
    ELSE a = b

\* C30: files share a duplicate group only if their parsed contents are
\* equal once 'name' is ignored, so every deleted file has the content of a
\* file that is kept; unparseable and non-mapping files included.
C30_OnlyEqualContentDeleted ==
    /\ step \in {"analyzed", "cleaned"} =>
          \A g \in analysis.duplicates : \A i, j \in g :
              C30_SameContent(yaml_files[i].content, yaml_files[j].content)
    /\ step = "cleaned" =>
          \A i \in deleted :
              \E j \in (1..Len(yaml_files)) \ deleted :
                  /\ analysis.file_info[j].content_hash = analysis.file_info[i].content_hash
                  /\ C30_SameContent(yaml_files[i].content, yaml_files[j].content)

====
